---- MODULE Spec2Model ----
(***************************************************************************)
(* oomuse-flags: the process-wide flag registry, the typed Flag<T> entity  *)
(* and the single-pass argument scanner of oomuse::flags::init.            *)
(*                                                                         *)
(* Text (std::string, C strings) is a sequence of one-character strings,   *)
(* so that getFlagName, the value-text extraction and the per-type parsers *)
(* are computed character by character as the code computes them.          *)
(***************************************************************************)
EXTENDS Integers, Sequences, FiniteSets, TLC

\* ----------------------------------------------------------------- bounds
MaxFlags  == 2   \* Flag objects alive at the same time
MaxArgs   == 3   \* command-line arguments after argv[0]

\* ------------------------------------------------------- text primitives
npos == -1       \* std::string::npos: "not found"

NULL == <<"nullptr">>   \* the argv terminator; not a character sequence

\* Character codes, for std::string's operator< (the key order of std::map).
CharCode ==
  ("\t" :> 9) @@ ("n" :> 110) @@
  (" " :> 32) @@ ("+" :> 43) @@ ("-" :> 45) @@ ("." :> 46) @@ ("0" :> 48) @@ ("1" :> 49) @@
  ("2" :> 50) @@ ("3" :> 51) @@ ("4" :> 52) @@ ("5" :> 53) @@ ("6" :> 54) @@
  ("7" :> 55) @@ ("8" :> 56) @@ ("9" :> 57) @@ ("=" :> 61) @@ ("A" :> 65) @@
  ("E" :> 69) @@ ("F" :> 70) @@ ("L" :> 76) @@ ("R" :> 82) @@ ("S" :> 83) @@
  ("T" :> 84) @@ ("U" :> 85) @@ ("a" :> 97) @@ ("b" :> 98) @@ ("c" :> 99) @@
  ("e" :> 101) @@ ("f" :> 102) @@ ("l" :> 108) @@ ("r" :> 114) @@
  ("s" :> 115) @@ ("t" :> 116) @@ ("u" :> 117) @@ ("x" :> 120)

Whitespace == {" ", "\t"}

Digits == {"0", "1", "2", "3", "4", "5", "6", "7", "8", "9"}

DigitVal == [c \in Digits |-> CharCode[c] - 48]

\* std::string::operator< : lexicographic by character code.
RECURSIVE StrLess(_, _)
StrLess(s, t) ==
  IF t = <<>> THEN FALSE
  ELSE IF s = <<>> THEN TRUE
  ELSE IF CharCode[Head(s)] # CharCode[Head(t)]
       THEN CharCode[Head(s)] < CharCode[Head(t)]
  ELSE StrLess(Tail(s), Tail(t))

\* strings::startsWith(str, prefix)
startsWith(str, prefix) ==
  /\ Len(str) >= Len(prefix)
  /\ SubSeq(str, 1, Len(prefix)) = prefix

\* std::string::find(ch): 0-based index of the first occurrence, or npos.
find(str, ch) ==
  IF \E i \in 1..Len(str) : str[i] = ch
  THEN (CHOOSE i \in 1..Len(str) :
          /\ str[i] = ch
          /\ \A j \in 1..(i - 1) : str[j] # ch) - 1
  ELSE npos

\* std::string::substr(pos, len), 0-based pos, clipped at the end.
substr(str, pos, len) ==
  SubSeq(str, pos + 1, IF pos + len > Len(str) THEN Len(str) ELSE pos + len)

\* std::string::substr(pos): the rest of the string from 0-based pos.
substrFrom(str, pos) == SubSeq(str, pos + 1, Len(str))

\* strings::trimWhitespace(str): drop leading and trailing whitespace.
RECURSIVE trimLeft(_)
trimLeft(s) ==
  IF s # <<>> /\ Head(s) \in Whitespace THEN trimLeft(Tail(s)) ELSE s

RECURSIVE trimRight(_)
trimRight(s) ==
  IF s # <<>> /\ s[Len(s)] \in Whitespace
  THEN trimRight(SubSeq(s, 1, Len(s) - 1)) ELSE s

trimWhitespace(s) == trimRight(trimLeft(s))

\* strings::toLowerCase(str)
LowerOf(c) ==
  IF CharCode[c] >= 65 /\ CharCode[c] <= 90
  THEN CHOOSE d \in DOMAIN CharCode : CharCode[d] = CharCode[c] + 32
  ELSE c

toLowerCase(s) == [i \in 1..Len(s) |-> LowerOf(s[i])]

\* ---------------------------------------------------------- typed values
\* A value of one of the flag types T.  The field named by the type carries
\* the value; the other fields stay at their value-initialised state.
NoValue == [b |-> FALSE, i |-> 0, s |-> <<>>]          \* T()

BoolValue(x)   == [NoValue EXCEPT !.b = x]
Int32Value(x)  == [NoValue EXCEPT !.i = x]
StringValue(x) == [NoValue EXCEPT !.s = x]

\* An int64 is kept as its decimal numeral (what operator<< writes for it:
\* "-" if negative, then the digits without leading zeros), in the text
\* field; the numeral of T() is "0".
Int64Value(numeral) == [NoValue EXCEPT !.s = numeral]

DigitChar(d) == CHOOSE c \in Digits : DigitVal[c] = d

\* operator<< of a non-negative int: its decimal digits.
RECURSIVE NatToText(_)
NatToText(n) ==
  IF n < 10 THEN <<DigitChar(n)>>
  ELSE Append(NatToText(n \div 10), DigitChar(n % 10))

\* operator<< of an int32.
Int32ToText(n) ==
  IF n >= 0 THEN NatToText(n)
  ELSE LET last == (10 - (n % 10)) % 10
           rest == (n + last) \div 10          \* exact, and <= 0
       IN  IF rest = 0 THEN <<"-", DigitChar(last)>>
           ELSE <<"-">> \o NatToText(0 - rest) \o <<DigitChar(last)>>

\* "ss << value" in passesValidator: std::boolalpha is not set there, so a
\* bool is written as 1 or 0.
StreamText(type, value) ==
  CASE type = "bool"   -> IF value.b THEN <<"1">> ELSE <<"0">>
    [] type = "int32"  -> Int32ToText(value.i)
    [] type = "int64"  -> value.s
    [] type = "string" -> value.s

\* ----------------------------------------------- std::istream >> int32
Int32MaxDigits == <<"2", "1", "4", "7", "4", "8", "3", "6", "4", "7">>
Int32MinDigits == <<"2", "1", "4", "7", "4", "8", "3", "6", "4", "8">>

RECURSIVE DigitRun(_)
DigitRun(s) ==
  IF s # <<>> /\ Head(s) \in Digits THEN <<Head(s)>> \o DigitRun(Tail(s))
  ELSE <<>>

RECURSIVE StripZeros(_)
StripZeros(ds) ==
  IF Len(ds) > 1 /\ Head(ds) = "0" THEN StripZeros(Tail(ds)) ELSE ds

\* The magnitude ds (no leading zeros) fits below the limit's magnitude.
FitsDigits(ds, limit) ==
  \/ Len(ds) < Len(limit)
  \/ Len(ds) = Len(limit) /\ ~StrLess(limit, ds)

\* Accumulates digits left to right, staying on the sign's side of zero so
\* that the most negative int32 is reached without overflow.
RECURSIVE Accumulate(_, _, _)
Accumulate(ds, acc, negative) ==
  IF ds = <<>> THEN acc
  ELSE Accumulate(Tail(ds),
                  IF negative THEN acc * 10 - DigitVal[Head(ds)]
                              ELSE acc * 10 + DigitVal[Head(ds)],
                  negative)

\* Mutant of ExtractInt32: a negative number is held to the positive limit.
ExtractInt32_NegativeLimitOffByOne(textValue) ==
  LET s0       == trimLeft(textValue)
      signed   == s0 # <<>> /\ Head(s0) \in {"+", "-"}
      negative == signed /\ Head(s0) = "-"
      s1       == IF signed THEN Tail(s0) ELSE s0
      run      == DigitRun(s1)
      ds       == StripZeros(run)
      rest     == SubSeq(s1, Len(run) + 1, Len(s1))
      fail     == run = <<>> \/ ~FitsDigits(ds, Int32MaxDigits)
  IN  [fail  |-> fail,
       eof   |-> trimLeft(rest) = <<>>,
       value |-> IF fail THEN 0 ELSE Accumulate(ds, 0, negative)]

\* "textStream >> value" for int32 followed by
\* "textStream.fail() || !(textStream >> std::ws).eof()":
\* skip leading whitespace, an optional sign, at least one digit, the result
\* in the int32 range, and nothing but whitespace after the number.
ExtractInt32(textValue) ==
  LET s0       == trimLeft(textValue)
      signed   == s0 # <<>> /\ Head(s0) \in {"+", "-"}
      negative == signed /\ Head(s0) = "-"
      s1       == IF signed THEN Tail(s0) ELSE s0
      run      == DigitRun(s1)
      ds       == StripZeros(run)
      rest     == SubSeq(s1, Len(run) + 1, Len(s1))
      inRange  == FitsDigits(ds, IF negative THEN Int32MinDigits
                                             ELSE Int32MaxDigits)
      fail     == run = <<>> \/ ~inRange
  IN  [fail  |-> fail,
       eof   |-> trimLeft(rest) = <<>>,
       value |-> IF fail THEN 0 ELSE Accumulate(ds, 0, negative)]

\* ----------------------------------------------- std::istream >> int64
Int64MaxDigits ==
  <<"9", "2", "2", "3", "3", "7", "2", "0", "3", "6",
    "8", "5", "4", "7", "7", "5", "8", "0", "7">>
Int64MinDigits ==
  <<"9", "2", "2", "3", "3", "7", "2", "0", "3", "6",
    "8", "5", "4", "7", "7", "5", "8", "0", "8">>

\* "textStream >> value" for int64 and the same test of the stream: as for
\* int32, over the signed 64-bit range.
ExtractInt64(textValue) ==
  LET s0       == trimLeft(textValue)
      signed   == s0 # <<>> /\ Head(s0) \in {"+", "-"}
      negative == signed /\ Head(s0) = "-"
      s1       == IF signed THEN Tail(s0) ELSE s0
      run      == DigitRun(s1)
      ds       == StripZeros(run)
      rest     == SubSeq(s1, Len(run) + 1, Len(s1))
      inRange  == FitsDigits(ds, IF negative THEN Int64MinDigits
                                             ELSE Int64MaxDigits)
      fail     == run = <<>> \/ ~inRange
  IN  [fail  |-> fail,
       eof   |-> trimLeft(rest) = <<>>,
       value |-> IF fail THEN <<"0">>
                 ELSE IF negative /\ ds # <<"0">> THEN <<"-">> \o ds
                 ELSE ds]

\* ------------------------------------------------------------ validators
\* oomuse::Validator<T> (oomuse-core): checkValidationErrors(value) returns
\* "" when the value is valid and a message otherwise.  A validator is a
\* record [kind, bound]; a message is a tuple, <<>> standing for "".
checkValidationErrors(validator, value) ==
  CASE validator.kind = "greater" ->
         IF value.i > validator.bound THEN <<>>
         ELSE <<"Must be greater than", validator.bound>>
    [] validator.kind = "lessOrEqual" ->
         IF value.i <= validator.bound THEN <<>>
         ELSE <<"Must be less than or equal to", validator.bound>>
    [] validator.kind = "sizeLessOrEqual" ->
         IF Len(value.s) <= validator.bound THEN <<>>
         ELSE <<"Size/length must be less than or equal to", validator.bound>>

\* --------------------------------------------------------- output lines
UnrecognizedLine(flagName) ==
  <<"Unrecognized command-line flag: --", flagName>>

InvalidLine(flagName, textValue, errorMsg) ==
  <<"Invalid value for flag --", flagName, textValue, errorMsg>>

MissingLine(flagName) ==
  <<"Missing required command-line flag --", flagName, ".">>

\* AbstractFlag::outputError: one line on the output stream.
outputError(flag, textValue, errorMsg, out) ==
  Append(out, InvalidLine(flag.name, textValue, errorMsg))

\* ------------------------------------------------------------- Flag<T>
NoValidator == [kind |-> "nullptr", bound |-> 0]   \* a null UniqueValidator

\* Mutant of FlagCtor: hasValue_ is not taken from the default.
FlagCtor_DefaultNotApplied(name, description, type, flagRequired, defaultValue, hasDefaultValue, validator1, validator2) ==
  [name            |-> name,
   description     |-> description,
   type            |-> type,
   isRequired      |-> (flagRequired = "YES"),
   value           |-> IF hasDefaultValue THEN defaultValue ELSE NoValue,
   hasValue        |-> FALSE,
   defaultValue    |-> defaultValue,
   hasDefaultValue |-> hasDefaultValue,
   validators      |-> (IF validator1 # NoValidator THEN <<validator1>>
                                                    ELSE <<>>)
                       \o (IF validator2 # NoValidator THEN <<validator2>>
                                                       ELSE <<>>)]

\* Mutant of FlagCtor: a default that a validator rejects is not taken.
FlagCtor_ValidatesDefault(name, description, type, flagRequired, defaultValue, hasDefaultValue, validator1, validator2) ==
  [name            |-> name,
   description     |-> description,
   type            |-> type,
   isRequired      |-> (flagRequired = "YES"),
   value           |-> IF hasDefaultValue THEN defaultValue ELSE NoValue,
   hasValue        |-> /\ hasDefaultValue
                       /\ \A v \in {validator1, validator2} \ {NoValidator} :
                            checkValidationErrors(v, defaultValue) = <<>>,
   defaultValue    |-> defaultValue,
   hasDefaultValue |-> hasDefaultValue,
   validators      |-> (IF validator1 # NoValidator THEN <<validator1>>
                                                    ELSE <<>>)
                       \o (IF validator2 # NoValidator THEN <<validator2>>
                                                       ELSE <<>>)]

\* The private constructor every public constructor delegates to: value_
\* and hasValue_ come from the default, validators_ keeps the non-null
\* validators in order.  (Registration is the RegisterFlag part of the
\* DeclareFlag action below.)
FlagCtor(name, description, type, flagRequired, defaultValue, hasDefaultValue, validator1, validator2) ==
  [name            |-> name,
   description     |-> description,
   type            |-> type,
   isRequired      |-> (flagRequired = "YES"),
   value           |-> IF hasDefaultValue THEN defaultValue ELSE NoValue,
   hasValue        |-> hasDefaultValue,
   defaultValue    |-> defaultValue,
   hasDefaultValue |-> hasDefaultValue,
   validators      |-> (IF validator1 # NoValidator THEN <<validator1>>
                                                    ELSE <<>>)
                       \o (IF validator2 # NoValidator THEN <<validator2>>
                                                       ELSE <<>>)]

\* Flag<T>::passesValidator: an error line if the validator rejects.
passesValidator(flag, validator, value, out) ==
  LET validationError == checkValidationErrors(validator, value)
  IN  IF validationError # <<>>
      THEN [ok  |-> FALSE,
            out |-> outputError(flag, StreamText(flag.type, value),
                                validationError, out)]
      ELSE [ok |-> TRUE, out |-> out]

\* Flag<T>::passesCustomValidators: std::all_of over validators_ from
\* index k on; it stops at the first validator that rejects.
RECURSIVE passesCustomValidatorsFrom(_, _, _, _)
passesCustomValidatorsFrom(flag, k, value, out) ==
  IF k > Len(flag.validators) THEN [ok |-> TRUE, out |-> out]
  ELSE LET r == passesValidator(flag, flag.validators[k], value, out)
       IN  IF ~r.ok THEN r
           ELSE passesCustomValidatorsFrom(flag, k + 1, value, r.out)

\* Every validator from index k on is invoked, whatever the earlier ones
\* said; r gathers the verdict and the lines.
RECURSIVE invokesAllValidatorsFrom(_, _, _, _)
invokesAllValidatorsFrom(flag, k, value, r) ==
  IF k > Len(flag.validators) THEN r
  ELSE invokesAllValidatorsFrom(flag, k + 1, value,
         [ok  |-> r.ok /\ passesValidator(flag, flag.validators[k],
                                          value, r.out).ok,
          out |-> passesValidator(flag, flag.validators[k],
                                  value, r.out).out])

\* Mutant of passesCustomValidators: no short circuit at the first
\* rejection.
passesCustomValidators_AllInvoked(flag, value, out) ==
  invokesAllValidatorsFrom(flag, 1, value, [ok |-> TRUE, out |-> out])

passesCustomValidators(flag, value, out) ==
  passesCustomValidatorsFrom(flag, 1, value, out)

\* Mutant of validateAndSet: the value is assigned before it is validated.
validateAndSet_SetsBeforeValidating(flag, value, out) ==
  LET r == passesCustomValidators(flag, value, out)
  IN  [ok   |-> r.ok,
       flag |-> [flag EXCEPT !.value = value, !.hasValue = TRUE],
       out  |-> r.out]

\* Mutant of validateAndSet: value_ is assigned but hasValue_ is not set.
validateAndSet_HasValueNotSet(flag, value, out) ==
  LET r == passesCustomValidators(flag, value, out)
  IN  IF ~r.ok THEN [ok |-> FALSE, flag |-> flag, out |-> r.out]
      ELSE [ok   |-> TRUE,
            flag |-> [flag EXCEPT !.value = value],
            out  |-> r.out]

\* Mutant of validateAndSet: the assignment also replaces the default.
validateAndSet_ReplacesDefault(flag, value, out) ==
  IF ~passesCustomValidators(flag, value, out).ok
  THEN [ok |-> FALSE, flag |-> flag,
        out |-> passesCustomValidators(flag, value, out).out]
  ELSE [ok   |-> TRUE,
        flag |-> [flag EXCEPT !.value = value, !.hasValue = TRUE,
                              !.defaultValue = value,
                              !.hasDefaultValue = TRUE],
        out  |-> passesCustomValidators(flag, value, out).out]

\* Mutant of validateAndSet: a rejected value clears hasValue_.
validateAndSet_ClearsOnRejection(flag, value, out) ==
  IF ~passesCustomValidators(flag, value, out).ok
  THEN [ok |-> FALSE, flag |-> [flag EXCEPT !.hasValue = FALSE],
        out |-> passesCustomValidators(flag, value, out).out]
  ELSE [ok   |-> TRUE,
        flag |-> [flag EXCEPT !.value = value, !.hasValue = TRUE],
        out  |-> passesCustomValidators(flag, value, out).out]

\* Flag<T>::validateAndSet: validate, then assign value_ and hasValue_.
validateAndSet(flag, value, out) ==
  LET r == passesCustomValidators(flag, value, out)
  IN  IF ~r.ok THEN [ok |-> FALSE, flag |-> flag, out |-> r.out]
      ELSE [ok   |-> TRUE,
            flag |-> [flag EXCEPT !.value = value, !.hasValue = TRUE],
            out  |-> r.out]

\* Mutant of parseValidateAndSetBool: the text is not trimmed.
parseValidateAndSetBool_NotTrimmed(flag, textValue, out) ==
  IF toLowerCase(textValue) = <<"t", "r", "u", "e">> \/ textValue = <<>>
  THEN validateAndSet(flag, BoolValue(TRUE), out)
  ELSE IF toLowerCase(textValue) = <<"f", "a", "l", "s", "e">>
  THEN validateAndSet(flag, BoolValue(FALSE), out)
  ELSE [ok   |-> FALSE,
        flag |-> flag,
        out  |-> outputError(flag, textValue,
                             <<"Must be true or false.">>, out)]

\* Flag<bool>::parseValidateAndSet
parseValidateAndSetBool(flag, textValue, out) ==
  LET lowercaseText == toLowerCase(trimWhitespace(textValue))
  IN  IF lowercaseText = <<"t", "r", "u", "e">> \/ lowercaseText = <<>>
      THEN validateAndSet(flag, BoolValue(TRUE), out)
      ELSE IF lowercaseText = <<"f", "a", "l", "s", "e">>
      THEN validateAndSet(flag, BoolValue(FALSE), out)
      ELSE [ok   |-> FALSE,
            flag |-> flag,
            out  |-> outputError(flag, textValue,
                                 <<"Must be true or false.">>, out)]

\* ------------------------------------- std::istream >> float and double
\* A float or double is kept as the decimal numeral it is the nearest value
\* of type T to: "-" if negative, the whole digits without leading zeros,
\* and "." with the fraction digits if there are any.
FloatValue(decimal) == [NoValue EXCEPT !.s = decimal]

\* The most whole digits of a numeral that is certainly below the largest
\* finite float (about 3.4e38) and double (about 1.8e308).
FloatWholeDigits  == 38
DoubleWholeDigits == 308

\* "textStream >> value" for a float or a double, for texts without an
\* exponent and with at most wholeDigits whole digits: skip leading
\* whitespace, an optional sign, digits, an optional point and digits, at
\* least one digit in all; eof tells whether only whitespace is left.
ExtractFloating(textValue, wholeDigits) ==
  LET s0       == trimLeft(textValue)
      signed   == s0 # <<>> /\ Head(s0) \in {"+", "-"}
      negative == signed /\ Head(s0) = "-"
      s1       == IF signed THEN Tail(s0) ELSE s0
      whole    == DigitRun(s1)
      s2       == SubSeq(s1, Len(whole) + 1, Len(s1))
      hasPoint == s2 # <<>> /\ Head(s2) = "."
      frac     == IF hasPoint THEN DigitRun(Tail(s2)) ELSE <<>>
      rest     == IF hasPoint THEN SubSeq(s2, Len(frac) + 2, Len(s2)) ELSE s2
      fail     == whole = <<>> /\ frac = <<>>
      finite   == Len(StripZeros(whole)) <= wholeDigits
  IN  [fail   |-> fail \/ ~finite,
       eof    |-> trimLeft(rest) = <<>>,
       finite |-> finite,
       value  |-> IF fail THEN <<>>
                  ELSE (IF negative THEN <<"-">> ELSE <<>>)
                         \o (IF whole = <<>> THEN <<"0">> ELSE StripZeros(whole))
                         \o (IF frac = <<>> THEN <<>> ELSE <<".">> \o frac)]

\* Mutant of parseValidateAndSetFloat: an empty text is read as zero.
parseValidateAndSetFloat_EmptyIsZero(flag, textValue, out) ==
  IF trimLeft(textValue) = <<>>
  THEN validateAndSet(flag, FloatValue(<<"0">>), out)
  ELSE IF ExtractFloating(textValue, FloatWholeDigits).fail
          \/ ~ExtractFloating(textValue, FloatWholeDigits).eof
  THEN [ok   |-> FALSE,
        flag |-> flag,
        out  |-> outputError(flag, textValue,
                             <<"Must be a finite float number.">>, out)]
  ELSE validateAndSet(flag,
         FloatValue(ExtractFloating(textValue, FloatWholeDigits).value), out)

\* Flag<float>::parseValidateAndSet
parseValidateAndSetFloat(flag, textValue, out) ==
  LET x == ExtractFloating(textValue, FloatWholeDigits)
  IN  IF x.fail \/ ~x.eof \/ ~x.finite
      THEN [ok   |-> FALSE,
            flag |-> flag,
            out  |-> outputError(flag, textValue,
                                 <<"Must be a finite float number.">>, out)]
      ELSE validateAndSet(flag, FloatValue(x.value), out)

\* Flag<double>::parseValidateAndSet
parseValidateAndSetDouble(flag, textValue, out) ==
  LET x == ExtractFloating(textValue, DoubleWholeDigits)
  IN  IF x.fail \/ ~x.eof \/ ~x.finite
      THEN [ok   |-> FALSE,
            flag |-> flag,
            out  |-> outputError(flag, textValue,
                                 <<"Must be a finite double number.">>, out)]
      ELSE validateAndSet(flag, FloatValue(x.value), out)

\* Flag<int32>::parseValidateAndSet
parseValidateAndSetInt32(flag, textValue, out) ==
  LET x == ExtractInt32(textValue)
  IN  IF x.fail \/ ~x.eof
      THEN [ok   |-> FALSE,
            flag |-> flag,
            out  |-> outputError(flag, textValue,
                                 <<"Must be an int32 number.">>, out)]
      ELSE validateAndSet(flag, Int32Value(x.value), out)

\* Flag<int64>::parseValidateAndSet
parseValidateAndSetInt64(flag, textValue, out) ==
  LET x == ExtractInt64(textValue)
  IN  IF x.fail \/ ~x.eof
      THEN [ok   |-> FALSE,
            flag |-> flag,
            out  |-> outputError(flag, textValue,
                                 <<"Must be an int64 number.">>, out)]
      ELSE validateAndSet(flag, Int64Value(x.value), out)

\* Mutant of parseValidateAndSetString: the text is trimmed first.
parseValidateAndSetString_Trimmed(flag, textValue, out) ==
  validateAndSet(flag, StringValue(trimWhitespace(textValue)), out)

\* Flag<std::string>::parseValidateAndSet
parseValidateAndSetString(flag, textValue, out) ==
  validateAndSet(flag, StringValue(textValue), out)

\* The virtual call flag->parseValidateAndSet(textValue).
FlagParseValidateAndSet(flag, textValue, out) ==
  CASE flag.type = "bool"   -> parseValidateAndSetBool(flag, textValue, out)
    [] flag.type = "int32"  -> parseValidateAndSetInt32(flag, textValue, out)
    [] flag.type = "int64"  -> parseValidateAndSetInt64(flag, textValue, out)
    [] flag.type = "float"  -> parseValidateAndSetFloat(flag, textValue, out)
    [] flag.type = "double" -> parseValidateAndSetDouble(flag, textValue, out)
    [] flag.type = "string" -> parseValidateAndSetString(flag, textValue, out)

\* ------------------------------------------------- registry and scanner
\* Mutant of getFlagName: one dash is taken for the flag prefix.
getFlagName_SingleDash(fullArg) ==
  IF ~startsWith(fullArg, <<"-">>) \/ Len(fullArg) < 2 THEN <<>>
  ELSE LET equalsIndex == find(fullArg, "=")
           nameLength  == IF equalsIndex # npos THEN equalsIndex - 1
                                                ELSE Len(fullArg) - 1
       IN  substr(fullArg, 1, nameLength)

\* getFlagName: "" for an argument that is not formatted like a flag.
getFlagName(fullArg) ==
  IF ~startsWith(fullArg, <<"-", "-">>) \/ Len(fullArg) < 3 THEN <<>>
  ELSE LET equalsIndex == find(fullArg, "=")
           nameLength  == IF equalsIndex # npos THEN equalsIndex - 2
                                                ELSE Len(fullArg) - 2
       IN  substr(fullArg, 2, nameLength)

\* Mutant of parseValidateAndSet: the value text starts after the last '='.
parseValidateAndSet_AfterLastEquals(flag, fullArg, out) ==
  FlagParseValidateAndSet(
    flag,
    IF find(fullArg, "=") = npos THEN <<>>
    ELSE SubSeq(fullArg,
                1 + CHOOSE i \in 1..Len(fullArg) :
                      /\ fullArg[i] = "="
                      /\ \A j \in (i + 1)..Len(fullArg) : fullArg[j] # "=",
                Len(fullArg)),
    out)

\* FlagsInternal::parseValidateAndSet: the text after the first '='.
parseValidateAndSet(flag, fullArg, out) ==
  LET equalsIndex == find(fullArg, "=")
      textValue   == IF equalsIndex # npos
                     THEN substrFrom(fullArg, equalsIndex + 1)
                     ELSE <<>>
  IN  FlagParseValidateAndSet(flag, textValue, out)

\* Iteration order of std::map<string, AbstractFlag*>: ascending keys.
RECURSIVE SortedKeys(_)
SortedKeys(keys) ==
  IF keys = {} THEN <<>>
  ELSE LET least == CHOOSE k \in keys : \A j \in keys \ {k} : StrLess(k, j)
       IN  <<least>> \o SortedKeys(keys \ {least})

\* areAllRequiredFlagsSet: walks flagMap() in key order, one line per
\* required flag without a value.
RECURSIVE areAllRequiredFlagsSetFrom(_, _, _, _)
areAllRequiredFlagsSetFrom(keys, map, objs, r) ==
  IF keys = <<>> THEN r
  ELSE LET flag == objs[map[Head(keys)]]
       IN  areAllRequiredFlagsSetFrom(Tail(keys), map, objs,
             IF flag.isRequired /\ ~flag.hasValue
             THEN [allAreSet |-> FALSE,
                   out       |-> Append(r.out, MissingLine(flag.name))]
             ELSE r)

\* Mutant of areAllRequiredFlagsSet: the check is skipped.
areAllRequiredFlagsSet_Skipped(map, objs, out) ==
  [allAreSet |-> TRUE, out |-> out]

\* The keys of the map in the order their flags were constructed.
RECURSIVE KeysByObject(_, _)
KeysByObject(map, keys) ==
  IF keys = {} THEN <<>>
  ELSE LET first == CHOOSE k \in keys : \A j \in keys : map[k] <= map[j]
       IN  <<first>> \o KeysByObject(map, keys \ {first})

\* Mutant of areAllRequiredFlagsSet: the flags are walked in declaration
\* order instead of key order.
areAllRequiredFlagsSet_DeclarationOrder(map, objs, out) ==
  areAllRequiredFlagsSetFrom(KeysByObject(map, DOMAIN map), map, objs,
                             [allAreSet |-> TRUE, out |-> out])

\* Mutant of areAllRequiredFlagsSet: missing flags are not reported.
areAllRequiredFlagsSet_Silent(map, objs, out) ==
  [allAreSet |-> areAllRequiredFlagsSetFrom(
                   SortedKeys(DOMAIN map), map, objs,
                   [allAreSet |-> TRUE, out |-> out]).allAreSet,
   out       |-> out]

areAllRequiredFlagsSet(map, objs, out) ==
  areAllRequiredFlagsSetFrom(SortedKeys(DOMAIN map), map, objs,
                             [allAreSet |-> TRUE, out |-> out])

\* Flag<T>::printableDefaultValue: "ss << std::boolalpha << defaultValue_",
\* "" without a default.
printableDefaultValue(flag) ==
  IF ~flag.hasDefaultValue THEN <<>>
  ELSE CASE flag.type = "bool" ->
              IF flag.defaultValue.b THEN <<"t", "r", "u", "e">>
                                     ELSE <<"f", "a", "l", "s", "e">>
         [] flag.type = "int32"  -> Int32ToText(flag.defaultValue.i)
         [] flag.type = "int64"  -> flag.defaultValue.s
         [] flag.type = "string" -> flag.defaultValue.s

\* The flags of the keys, in that order, whose isRequired() is required.
RECURSIVE flagsByRequirednessFrom(_, _, _, _)
flagsByRequirednessFrom(keys, map, objs, required) ==
  IF keys = <<>> THEN <<>>
  ELSE (IF objs[map[Head(keys)]].isRequired = required
        THEN <<objs[map[Head(keys)]]>> ELSE <<>>)
         \o flagsByRequirednessFrom(Tail(keys), map, objs, required)

\* Mutant of getFlagsByRequiredness: the flags come in declaration order.
getFlagsByRequiredness_DeclarationOrder(required, map, objs) ==
  flagsByRequirednessFrom(KeysByObject(map, DOMAIN map), map, objs, required)

\* getFlagsByRequiredness: walks flagMap() in key order.
getFlagsByRequiredness(required, map, objs) ==
  flagsByRequirednessFrom(SortedKeys(DOMAIN map), map, objs, required)

\* The line printFlags writes for one flag: the pieces put on the stream.
FlagLine(flag) ==
  <<"  --", flag.name, ": ", flag.description>>
    \o (IF flag.hasDefaultValue
        THEN <<" (default: ", printableDefaultValue(flag), ")">>
        ELSE <<>>)

\* printFlags: nothing for an empty list; otherwise an empty line, the
\* label and one line per flag.
printFlags(flags, label, out) ==
  IF flags = <<>> THEN out
  ELSE out \o <<<<"">>, <<label>>>>
           \o [i \in 1..Len(flags) |-> FlagLine(flags[i])]

\* Mutant of printUsageLines: optional flags alone also give " flags".
printUsageLines_NeverBracketed(programName, positionalArgs, usageNotes, requiredFlags, optionalFlags, out) ==
  printFlags(optionalFlags, "Optional flags:",
    printFlags(requiredFlags, "Required flags:",
      out
        \o << <<"Usage: ", programName>>
                \o (IF requiredFlags # <<>> \/ optionalFlags # <<>>
                    THEN <<" flags">> ELSE <<>>)
                \o (IF positionalArgs # <<>>
                    THEN <<" ", positionalArgs>> ELSE <<>>) >>
        \o (IF usageNotes # <<>> THEN <<<<"  ", usageNotes>>>> ELSE <<>>)))

\* printUsage once the two flag lists are made: the usage line, the notes
\* line, the block of the required flags and the block of the optional
\* ones.
printUsageLines(programName, positionalArgs, usageNotes, requiredFlags, optionalFlags, out) ==
  printFlags(optionalFlags, "Optional flags:",
    printFlags(requiredFlags, "Required flags:",
      out
        \o << <<"Usage: ", programName>>
                \o (IF requiredFlags # <<>> \/ optionalFlags # <<>>
                    THEN <<IF requiredFlags = <<>> THEN " [flags]"
                                                   ELSE " flags">>
                    ELSE <<>>)
                \o (IF positionalArgs # <<>>
                    THEN <<" ", positionalArgs>> ELSE <<>>) >>
        \o (IF usageNotes # <<>> THEN <<<<"  ", usageNotes>>>> ELSE <<>>)))

\* printUsage(programName, positionalArgs, usageNotes)
printUsage(programName, positionalArgs, usageNotes, map, objs, out) ==
  printUsageLines(programName, positionalArgs, usageNotes,
                  getFlagsByRequiredness(TRUE, map, objs),
                  getFlagsByRequiredness(FALSE, map, objs), out)

nullptr == 0            \* no Flag object; objects are numbered from 1

\* Mutant of getFlag: an unknown name is not reported.
getFlag_Silent(map, flagName, out) ==
  IF flagName \notin DOMAIN map
  THEN [flag |-> nullptr, out |-> out]
  ELSE [flag |-> map[flagName], out |-> out]

\* getFlag: the registered flag, or nullptr and an "Unrecognized" line.
getFlag(map, flagName, out) ==
  IF flagName \notin DOMAIN map
  THEN [flag |-> nullptr, out |-> Append(out, UnrecognizedLine(flagName))]
  ELSE [flag |-> map[flagName], out |-> out]

\* The for loop of init from argv index i on (argv[0] is index 1 here).
\* st = [argv, nextPositionalArg, objs, out, log]; log lists, in order, the
\* flags whose value_ the loop has assigned.
RECURSIVE initLoop(_, _, _)
initLoop(i, map, st) ==
  IF st.argv[i] = NULL THEN [completed |-> TRUE, st |-> st]
  ELSE
    LET fullArg  == st.argv[i]
        flagName == getFlagName(fullArg)
    IN  IF flagName = <<>>
        THEN initLoop(i + 1, map,
               [st EXCEPT !.argv[st.nextPositionalArg] = fullArg,
                          !.nextPositionalArg = @ + 1])
        ELSE
          LET g == getFlag(map, flagName, st.out)
          IN  IF g.flag = nullptr
              THEN [completed |-> FALSE, st |-> [st EXCEPT !.out = g.out]]
              ELSE
                LET r == parseValidateAndSet(st.objs[g.flag], fullArg, g.out)
                    st2 == [st EXCEPT !.objs[g.flag] = r.flag,
                                      !.out = r.out]
                IN  IF ~r.ok
                    THEN [completed |-> FALSE, st |-> st2]
                    ELSE initLoop(i + 1, map,
                           [st2 EXCEPT !.log = Append(@, flagName)])

\* Mutant of initReturn: *argcPtr counts the positional arguments only.
initReturn_ArgcWithoutProgramName(st, req) ==
  [ret  |-> req.allAreSet,
   argv |-> [st.argv EXCEPT ![st.nextPositionalArg] = NULL],
   argc |-> st.nextPositionalArg - 2,
   objs |-> st.objs, out |-> req.out, log |-> st.log]

\* Mutant of initReturn: the terminator and *argcPtr are written only when
\* no required flag is missing.
initReturn_WritesOnlyOnSuccess(st, req) ==
  [ret  |-> req.allAreSet,
   argv |-> IF req.allAreSet
            THEN [st.argv EXCEPT ![st.nextPositionalArg] = NULL]
            ELSE st.argv,
   argc |-> IF req.allAreSet THEN st.nextPositionalArg - 1
                             ELSE Len(st.argv) - 1,
   objs |-> st.objs, out |-> req.out, log |-> st.log]

\* The end of init after a completed scan: the terminator is written at
\* nextPositionalArg, *argcPtr becomes the number of entries before it, and
\* the call returns what areAllRequiredFlagsSet() (req) returned.
initReturn(st, req) ==
  [ret  |-> req.allAreSet,
   argv |-> [st.argv EXCEPT ![st.nextPositionalArg] = NULL],
   argc |-> st.nextPositionalArg - 1,
   objs |-> st.objs, out |-> req.out, log |-> st.log]

\* Mutant of initEarlyReturn: the terminator and *argcPtr are written
\* before the early return.
initEarlyReturn_Compacts(argcIn, st, out) ==
  [ret  |-> FALSE,
   argv |-> [st.argv EXCEPT ![st.nextPositionalArg] = NULL],
   argc |-> st.nextPositionalArg - 1,
   objs |-> st.objs, out |-> out, log |-> st.log]

\* What an early return of the loop leaves: argv as the loop made it, and
\* *argcPtr not written.
initEarlyReturn(argcIn, st, out) ==
  [ret  |-> FALSE, argv |-> st.argv, argc |-> argcIn,
   objs |-> st.objs, out |-> out, log |-> st.log]

\* Mutant of initAfterLoop: the required-flag check also runs after an
\* aborted scan.
initAfterLoop_ChecksRequiredAfterAbort(argcIn, map, s) ==
  IF ~s.completed
  THEN initEarlyReturn(argcIn, s.st,
         areAllRequiredFlagsSet(map, s.st.objs, s.st.out).out)
  ELSE initReturn(s.st, areAllRequiredFlagsSet(map, s.st.objs, s.st.out))

\* init once the loop has ended with s: an early return (return false
\* inside the loop) skips the terminator, *argcPtr and the required-flag
\* check.
initAfterLoop(argcIn, map, s) ==
  IF ~s.completed
  THEN initEarlyReturn(argcIn, s.st, s.st.out)
  ELSE initReturn(s.st, areAllRequiredFlagsSet(map, s.st.objs, s.st.out))

\* init(argcPtr, argv) after its assertion: the scan from argv[1] on with
\* nextPositionalArg at argv[1], then the end of the function.
init(argcIn, argvIn0, map, objs, out) ==
  initAfterLoop(argcIn, map,
    initLoop(2, map, [argv |-> argvIn0, nextPositionalArg |-> 2,
                      objs |-> objs, out |-> out, log |-> <<>>]))

\* ------------------------------------------------------------- the inputs
Greater0     == [kind |-> "greater", bound |-> 0]
LessOrEqual5 == [kind |-> "lessOrEqual", bound |-> 5]

\* A call of a public constructor, as the arguments it hands to the private
\* one: (name, description[, validators]) is optional without a default,
\* (.., flagRequired, ..) passes the requiredness on, (.., defaultValue, ..)
\* is optional with a default.
CtorCall(name, description, type, flagRequired, defaultValue, hasDefaultValue, validator1, validator2) ==
  [name |-> name, description |-> description, type |-> type,
   flagRequired |-> flagRequired,
   defaultValue |-> defaultValue, hasDefaultValue |-> hasDefaultValue,
   validator1 |-> validator1, validator2 |-> validator2]

\* Flag(name, description[, validator1[, validator2]]): optional, no
\* default; a validator left out is nullptr.
FlagOptional(name, description, type, validator1, validator2) ==
  CtorCall(name, description, type, "NO", NoValue, FALSE, validator1, validator2)

\* Flag(name, description, flagRequired[, validator1[, validator2]]): no
\* default.
FlagWithRequiredness(name, description, type, flagRequired, validator1, validator2) ==
  CtorCall(name, description, type, flagRequired, NoValue, FALSE, validator1, validator2)

\* Mutant of FlagWithDefault: a flag with a default is made required.
FlagWithDefault_Required(name, description, type, defaultValue, validator1, validator2) ==
  CtorCall(name, description, type, "YES", defaultValue, TRUE, validator1, validator2)

\* Flag(name, description, defaultValue[, validator1[, validator2]]):
\* optional, with a default.
FlagWithDefault(name, description, type, defaultValue, validator1, validator2) ==
  CtorCall(name, description, type, "NO", defaultValue, TRUE, validator1, validator2)

\* The descriptions given to the flags.
AboutA == <<"about a">>
AboutB == <<"about b">>
AboutN == <<"about n">>

\* The flag declarations tried.
Declarations ==
  { FlagOptional(<<"a">>, AboutA, "int32",
                 Greater0, LessOrEqual5),
    FlagWithDefault(<<"a">>, AboutA, "int32", Int32Value(0),
                    Greater0, LessOrEqual5),
    FlagOptional(<<"a">>, AboutA, "bool",
                 NoValidator, NoValidator),
    FlagWithRequiredness(<<"a">>, AboutA, "string", "YES",
                         NoValidator, NoValidator),
    FlagWithRequiredness(<<"b">>, AboutB, "string", "YES",
                         NoValidator, NoValidator),
    FlagWithDefault(<<"b">>, AboutB, "bool", BoolValue(FALSE),
                    NoValidator, NoValidator),
    FlagWithRequiredness(<<"b">>, AboutB, "int32", "YES",
                         Greater0, NoValidator),
    FlagOptional(<<>>, AboutA, "bool",
                 NoValidator, NoValidator),
    FlagOptional(<<"a">>, <<>>, "bool",
                 NoValidator, NoValidator) }

\* The command-line arguments tried.
ArgMenu ==
  { <<"x">>,                                   \* positional
    <<"-", "-">>,                              \* "--" alone
    <<"-", "-", "c">>,                         \* never registered
    <<"-", "-", "a">>,
    <<"-", "-", "a", "=", "1">>,
    <<"-", "-", "a", "=", "6">>,
    <<"-", "-", "b">> }

RECURSIVE SeqsUpTo(_, _)
SeqsUpTo(S, n) ==
  IF n = 0 THEN {<<>>}
  ELSE LET shorter == SeqsUpTo(S, n - 1)
       IN  shorter \cup {Append(q, x) : q \in shorter, x \in S}

ArgLists == SeqsUpTo(ArgMenu, MaxArgs)

ProgramName == <<"A">>

\* ----------------------------------------------------------------- state
VARIABLES
  hasBeenInitialized,  \* the one-shot latch of init
  flagMap,             \* flagMap(): flag name -> registered Flag object
  flagObj,             \* the Flag objects that are alive, by number
  output,              \* the lines written to the current output stream
  argvIn,              \* the caller's argv as passed to the last init call
  argv,                \* the caller's argv array as that call left it
  argc,                \* the caller's argc as that call left it
  ret,                 \* what the caller's last init call returned
  setLog,              \* the flags the last init call assigned, in order
  retry,               \* the last init call followed a call that returned false
  aborted,             \* an assertion has failed: the process is gone
  exitStatus,          \* the status exit was called with, "none" before
  op                   \* the operation that ran last

vars == <<hasBeenInitialized, flagMap, flagObj, output, argvIn, argv, argc,
          ret, setLog, retry, aborted, exitStatus, op>>

\* exit(EXIT_FAILURE)
EXIT_FAILURE == "EXIT_FAILURE"

\* The process is running: no assertion has failed and exit has not been
\* called.
Running == ~aborted /\ exitStatus = "none"

EmptyMap == [n \in {} |-> nullptr]

\* Mutant of clear: the registry keeps its entries.
clear_KeepsEntries(map) == map

\* flagMap().clear()
clear(map) == EmptyMap

\* The objects that flagMap points to.
Registered == {flagMap[n] : n \in DOMAIN flagMap}

\* The number a newly constructed object gets: the least one not in use.
NewObject == CHOOSE i \in 1..MaxFlags :
               /\ i \notin DOMAIN flagObj
               /\ \A j \in 1..(i - 1) : j \in DOMAIN flagObj

Init ==
  /\ hasBeenInitialized = FALSE
  /\ flagMap = EmptyMap
  /\ flagObj = <<>>
  /\ output = <<>>
  /\ argvIn = <<>>
  /\ argv = <<>>
  /\ argc = 0
  /\ ret = "none"
  /\ setLog = <<>>
  /\ retry = FALSE
  /\ aborted = FALSE
  /\ exitStatus = "none"
  /\ op = "start"

\* --------------------------------------------------------------- actions
\* argvIn, argv, argc and setLog are the caller's view of its last init call.
\* The library never reads them, so the caller lets go of them (ReleaseArgs)
\* before it makes its next call; every state of the library is reached
\* that way.
CallerIdle == argvIn = <<>>

\* Mutant of CanRegister: registerFlag's assertion is compiled out.
CanRegister_DuplicatesAllowed(name, map) == name # <<>>

\* The assertions of AbstractFlag's constructor and of registerFlag.
CanRegister(name, map) == name # <<>> /\ name \notin DOMAIN map

\* FlagsInternal::registerFlag: flagMap()[flag->name()] = flag.
registerFlag(map, name, id) ==
  [n \in DOMAIN map \cup {name} |-> IF n = name THEN id ELSE map[n]]

\* Flags that a reset has unregistered are destroyed before flags are
\* declared or parsed again, as the objects of one test are gone before the
\* next test declares its own.  The library holds no reference to them.
NoStaleFlags == DOMAIN flagObj \subseteq Registered

\* Constructing a Flag<T> through one of its public constructors.
DeclareFlag(d) ==
  /\ Running
  /\ CallerIdle
  /\ NoStaleFlags
  /\ Cardinality(DOMAIN flagObj) < MaxFlags
  /\ op' = "declare"
  /\ IF d.description = <<>> \/ ~CanRegister(d.name, flagMap)
     THEN /\ aborted' = TRUE
          /\ UNCHANGED <<flagMap, flagObj>>
     ELSE /\ flagMap' = registerFlag(flagMap, d.name, NewObject)
          /\ flagObj' =
               [i \in DOMAIN flagObj \cup {NewObject} |->
                  IF i = NewObject
                  THEN FlagCtor(d.name, d.description, d.type, d.flagRequired,
                                d.defaultValue, d.hasDefaultValue,
                                d.validator1, d.validator2)
                  ELSE flagObj[i]]
          /\ UNCHANGED aborted
  /\ UNCHANGED <<hasBeenInitialized, output, argvIn, argv, argc, ret,
                 setLog, retry,
                 exitStatus>>

\* Every registered flag is alive.  init and printUsage are called only
\* then: flagMap() holds plain pointers, and a destroyed flag must not be
\* read.  The flags of a test live until its end, and the fixture of the
\* next test resets the registry before anything else.
NoDanglingFlags ==
  \A n \in DOMAIN flagMap :
    flagMap[n] \in DOMAIN flagObj /\ flagObj[flagMap[n]].name = n

\* Mutant of DestroyFlag: the destructor takes the flag out of flagMap().
DestroyFlag_Unregisters(id) ==
  /\ Running
  /\ CallerIdle
  /\ id \in DOMAIN flagObj
  /\ op' = "destroy"
  /\ flagObj' = [i \in DOMAIN flagObj \ {id} |-> flagObj[i]]
  /\ flagMap' = [n \in {m \in DOMAIN flagMap : flagMap[m] # id} |-> flagMap[n]]
  /\ UNCHANGED <<hasBeenInitialized, output, argvIn, argv, argc,
                 ret, setLog, retry, aborted, exitStatus>>

\* ~AbstractFlag: the object is gone and nothing else changes; a flag that
\* is registered stays in flagMap().
DestroyFlag(id) ==
  /\ Running
  /\ CallerIdle
  /\ id \in DOMAIN flagObj
  /\ op' = "destroy"
  /\ flagObj' = [i \in DOMAIN flagObj \ {id} |-> flagObj[i]]
  /\ UNCHANGED <<hasBeenInitialized, flagMap, output, argvIn, argv, argc,
                 ret, setLog, retry, aborted,
                 exitStatus>>

\* init is called with nothing written yet to the current output stream, as
\* in every test: the fixture installs a new stream before each one.
FreshStream == output = <<>>

\* Mutant of InitAssertion: the assertion is compiled out.
InitAssertion_Off(initialized) == TRUE

\* assert(!hasBeenInitialized) at the top of init.
InitAssertion(initialized) == ~initialized

\* Mutant of InitReturns: the latch is set only by a call that returns
\* true.
InitReturns_LatchOnlyOnSuccess(passed, r) ==
  /\ hasBeenInitialized' = r.ret
  /\ flagObj' = r.objs
  /\ output' = r.out
  /\ argvIn' = passed
  /\ argv' = r.argv
  /\ argc' = r.argc
  /\ ret' = IF r.ret THEN "true" ELSE "false"
  /\ setLog' = r.log
  /\ retry' = (ret = "false")

\* What a call of init that passed its assertion leaves behind, r being the
\* result of init on the argv array passed: the latch is set (at entry,
\* before the scan), the flags and the stream are as the scan left them,
\* and the caller sees argv, argc and the returned bool.
InitReturns(passed, r) ==
  /\ hasBeenInitialized' = TRUE
  /\ flagObj' = r.objs
  /\ output' = r.out
  /\ argvIn' = passed
  /\ argv' = r.argv
  /\ argc' = r.argc
  /\ ret' = IF r.ret THEN "true" ELSE "false"
  /\ setLog' = r.log
  /\ retry' = (ret = "false")

\* The argv array of a call: program name, arguments, nullptr.
ArgvOf(args) == <<ProgramName>> \o args \o <<NULL>>

\* oomuse::flags::init(&argc, argv) with argv = program name, args, nullptr
\* and argc = the number of entries before the terminator.
InitCall ==
  /\ Running
  /\ CallerIdle
  /\ op' = "init"
  /\ IF ~InitAssertion(hasBeenInitialized)
     THEN /\ aborted' = TRUE
          /\ UNCHANGED <<hasBeenInitialized, flagMap, flagObj, output,
                         argvIn, argv, argc, ret, setLog, retry,
                         exitStatus>>
     ELSE /\ NoStaleFlags
          /\ NoDanglingFlags
          /\ FreshStream
          /\ \E args \in ArgLists :
               InitReturns(ArgvOf(args),
                           init(Len(args) + 1, ArgvOf(args),
                                flagMap, flagObj, output))
          /\ UNCHANGED <<flagMap, aborted, exitStatus>>

\* resetForTest
ResetForTest ==
  /\ Running
  /\ CallerIdle
  /\ op' = "resetForTest"
  /\ hasBeenInitialized' = FALSE
  /\ flagMap' = clear(flagMap)
  /\ UNCHANGED <<flagObj, output, argvIn, argv, argc, ret, setLog, retry,
                 aborted,
                 exitStatus>>

\* setOutputStream(&stream) with a newly made, empty stream, as the test
\* fixture does.
SetOutputStream ==
  /\ Running
  /\ CallerIdle
  /\ op' = "setOutputStream"
  /\ output' = <<>>
  /\ UNCHANGED <<hasBeenInitialized, flagMap, flagObj, argvIn, argv, argc,
                 ret, setLog, retry, aborted,
                 exitStatus>>

\* The caller is done with the argv array of its last init call; it keeps
\* the returned bool.
ReleaseArgs ==
  /\ Running
  /\ ~CallerIdle
  /\ op' = "releaseArgs"
  /\ argvIn' = <<>>
  /\ argv' = <<>>
  /\ argc' = 0
  /\ setLog' = <<>>
  /\ retry' = FALSE
  /\ UNCHANGED <<hasBeenInitialized, flagMap, flagObj, output, ret, aborted,
                 exitStatus>>

\* The hints and notes printUsage is called with.
PositionalHints == {<<>>, <<"<files>">>}
UsageNotes      == {<<>>, <<"notes">>}

\* printUsage(programName, positionalArgs, usageNotes)
PrintUsage(programName, positionalArgs, usageNotes) ==
  /\ Running
  /\ CallerIdle
  /\ NoDanglingFlags
  /\ FreshStream
  /\ op' = "printUsage"
  /\ output' = printUsage(programName, positionalArgs, usageNotes,
                          flagMap, flagObj, output)
  /\ UNCHANGED <<hasBeenInitialized, flagMap, flagObj, argvIn, argv, argc,
                 ret, setLog, retry, aborted,
                 exitStatus>>

Next ==
  \/ \E d \in Declarations : DeclareFlag(d)
  \/ \E id \in 1..MaxFlags : DestroyFlag(id)
  \/ InitCall
  \/ \E p \in PositionalHints, u \in UsageNotes : PrintUsage(ProgramName, p, u)
  \/ ResetForTest
  \/ SetOutputStream
  \/ ReleaseArgs

Spec == Init /\ [][Next]_vars

\* ------------------------------------ one argument parsed for one flag
\* A second specification for the per-type parsers and the classification
\* of arguments: a process that has declared one flag named n calls init
\* once with one argument, drawn from a wide set of texts.
MaxPad == 1   \* whitespace characters put on each side of a value text

LessOrEqual2     == [kind |-> "lessOrEqual", bound |-> 2]
SizeLessOrEqual1 == [kind |-> "sizeLessOrEqual", bound |-> 1]

FlagN == <<"n">>

\* The declarations of n tried.
ParseDeclarations ==
  { FlagOptional(FlagN, AboutN, "bool",
                 NoValidator, NoValidator),
    FlagWithDefault(FlagN, AboutN, "bool", BoolValue(TRUE),
                    NoValidator, NoValidator),
    FlagOptional(FlagN, AboutN, "int32",
                 NoValidator, NoValidator),
    FlagWithDefault(FlagN, AboutN, "int32", Int32Value(7),
                    NoValidator, NoValidator),
    FlagOptional(FlagN, AboutN, "int32",
                 Greater0, LessOrEqual5),
    FlagOptional(FlagN, AboutN, "int32",
                 LessOrEqual5, LessOrEqual2),
    FlagWithDefault(FlagN, AboutN, "int32", Int32Value(7),
                    LessOrEqual2, LessOrEqual5),
    FlagOptional(FlagN, AboutN, "int64",
                 NoValidator, NoValidator),
    FlagWithDefault(FlagN, AboutN, "int64", Int64Value(<<"5">>),
                    NoValidator, NoValidator),
    FlagOptional(FlagN, AboutN, "string",
                 NoValidator, NoValidator),
    FlagWithDefault(FlagN, AboutN, "string", StringValue(<<"x">>),
                    NoValidator, NoValidator),
    FlagWithRequiredness(FlagN, AboutN, "string", "YES",
                         SizeLessOrEqual1, NoValidator),
    FlagOptional(FlagN, AboutN, "float", NoValidator, NoValidator),
    FlagWithRequiredness(FlagN, AboutN, "double", "YES",
                         NoValidator, NoValidator) }

\* Value texts without surrounding whitespace.
ValueCores ==
  { <<>>,
    <<"t", "r", "u", "e">>, <<"T", "R", "U", "E">>, <<"t", "R", "U", "e">>,
    <<"f", "a", "l", "s", "e">>, <<"F", "A", "L", "S", "E">>,
    <<"f", "a", "L", "S", "e">>,
    <<"t", "r", "u">>, <<"t", "r", "u", "e", "e">>, <<"t", " ", "r", "u", "e">>,
    <<"0">>, <<"1">>, <<"3">>, <<"6">>, <<"-", "1">>, <<"+", "5">>,
    <<"0", "0", "7">>, <<"-", "0">>,
    <<"5", "x">>, <<"x">>, <<"-">>, <<"+">>, <<"-", "-", "5">>,
    <<"1", " ", "2">>, <<"-", " ", "1">>,
    <<"a", "=", "b">>, <<"=">>,
    <<"1", ".", "5">>, <<"-", ".", "5">>, <<"5", ".">>, <<".">>,
    Int32MaxDigits, Int32MinDigits,
    <<"-">> \o Int32MinDigits, <<"-">> \o Int32MaxDigits,
    <<"-", "2", "1", "4", "7", "4", "8", "3", "6", "4", "9">>,
    Int64MaxDigits, Int64MinDigits,
    <<"-">> \o Int64MinDigits,
    <<"-", "9", "2", "2", "3", "3", "7", "2", "0", "3", "6",
      "8", "5", "4", "7", "7", "5", "8", "0", "9">> }

Pads == SeqsUpTo(Whitespace, MaxPad)

ValueTexts == {l \o c \o r : l \in Pads, c \in ValueCores, r \in Pads}

\* Arguments that do not have the form --n or --n=<text>.
OtherArgs ==
  { <<"-">>, <<"-", "-">>, <<"-", "-", "-">>, <<"-", "n">>, <<"n">>,
    <<"-", "-", "=">>, <<"-", "-", "=", "5">>, <<"=">>, <<"=", "n">>,
    <<"n", "=", "5">>, <<"-", "n", "=", "5">>,
    <<" ", "-", "-", "n">>, <<"-", " ", "-", "n">>,
    <<"-", "-", "c">>, <<"-", "-", "c", "=", "5">>,
    <<"-", "-", "n", "n">>, <<"-", "-", "n", " ", "=", "5">>,
    <<"-", "-", " ", "n">>, <<"-", "-", "-", "n">> }

ParseArgs ==
  {<<"-", "-", "n">>}
    \cup {<<"-", "-", "n", "=">> \o t : t \in ValueTexts}
    \cup OtherArgs

\* The process has constructed one flag and has not called init.
ParseInit ==
  /\ hasBeenInitialized = FALSE
  /\ \E d \in ParseDeclarations :
       /\ flagMap = registerFlag(EmptyMap, d.name, 1)
       /\ flagObj = <<FlagCtor(d.name, d.description, d.type, d.flagRequired,
                               d.defaultValue, d.hasDefaultValue,
                               d.validator1, d.validator2)>>
  /\ output = <<>>
  /\ argvIn = <<>>
  /\ argv = <<>>
  /\ argc = 0
  /\ ret = "none"
  /\ setLog = <<>>
  /\ retry = FALSE
  /\ aborted = FALSE
  /\ exitStatus = "none"
  /\ op = "declare"

\* init(&argc, argv) with argv = program name, one argument, nullptr.
ParseArg ==
  /\ Running
  /\ CallerIdle
  /\ InitAssertion(hasBeenInitialized)
  /\ FreshStream
  /\ op' = "init"
  /\ \E a \in ParseArgs :
       InitReturns(ArgvOf(<<a>>),
                   init(2, ArgvOf(<<a>>), flagMap, flagObj, output))
  /\ UNCHANGED <<flagMap, aborted, exitStatus>>

ParseNext == ParseArg

ParseSpec == ParseInit /\ [][ParseNext]_vars

\* ----------------------------------------------------- printing the usage
\* A third specification for printUsage: flags are declared, the usage is
\* printed on a new stream, and resetForTest starts over.  What printUsage
\* writes depends on nothing that init changes.
UsageNext ==
  \/ \E d \in Declarations : DeclareFlag(d)
  \/ \E id \in 1..MaxFlags : DestroyFlag(id)
  \/ \E p \in PositionalHints, u \in UsageNotes : PrintUsage(ProgramName, p, u)
  \/ ResetForTest
  \/ SetOutputStream

UsageSpec == Init /\ [][UsageNext]_vars

\* ------------------------------------------------ the wrappers around init
\* A fourth specification for initOrDie and initOrPrintUsageAndDie, which
\* take the place of init.  They are called with no argument or one: what
\* the scan does with longer lists is init's business.
WrapperArgLists == {<<>>} \cup {<<a>> : a \in ArgMenu}

\* initOrDie once init has returned r: exit(EXIT_FAILURE) if it returned
\* false.
initOrDieAfterInit(r) ==
  [r |-> r, exit |-> IF r.ret THEN "none" ELSE EXIT_FAILURE]

\* Mutant of initOrPrintUsageAndDieAfterInit: the usage is not printed.
initOrPrintUsageAndDieAfterInit_NoUsage(r, programName, positionalArgs, usageNotes, map) ==
  initOrDieAfterInit(r)

\* initOrPrintUsageAndDie once init has returned r: printUsage and
\* exit(EXIT_FAILURE) if it returned false.
initOrPrintUsageAndDieAfterInit(r, programName, positionalArgs, usageNotes, map) ==
  IF r.ret THEN [r |-> r, exit |-> "none"]
  ELSE [r    |-> [r EXCEPT !.out = printUsage(programName, positionalArgs,
                                              usageNotes, map, r.objs, r.out)],
        exit |-> EXIT_FAILURE]

\* What a wrapper leaves behind: what its init call leaves, and the process
\* has exited or not.
WrapperReturns(passed, w) ==
  /\ InitReturns(passed, w.r)
  /\ exitStatus' = w.exit

\* oomuse::flags::initOrDie(&argc, argv)
InitOrDie ==
  /\ Running
  /\ CallerIdle
  /\ op' = "initOrDie"
  /\ IF ~InitAssertion(hasBeenInitialized)
     THEN /\ aborted' = TRUE
          /\ UNCHANGED <<hasBeenInitialized, flagMap, flagObj, output,
                         argvIn, argv, argc, ret, setLog, retry,
                         exitStatus>>
     ELSE /\ NoStaleFlags
          /\ NoDanglingFlags
          /\ FreshStream
          /\ \E args \in WrapperArgLists :
               WrapperReturns(ArgvOf(args),
                 initOrDieAfterInit(init(Len(args) + 1, ArgvOf(args),
                                         flagMap, flagObj, output)))
          /\ UNCHANGED <<flagMap, aborted>>

\* oomuse::flags::initOrPrintUsageAndDie(&argc, argv, programName,
\* positionalArgs, usageNotes)
InitOrPrintUsageAndDie(programName, positionalArgs, usageNotes) ==
  /\ Running
  /\ CallerIdle
  /\ op' = "initOrPrintUsageAndDie"
  /\ IF ~InitAssertion(hasBeenInitialized)
     THEN /\ aborted' = TRUE
          /\ UNCHANGED <<hasBeenInitialized, flagMap, flagObj, output,
                         argvIn, argv, argc, ret, setLog, retry,
                         exitStatus>>
     ELSE /\ NoStaleFlags
          /\ NoDanglingFlags
          /\ FreshStream
          /\ \E args \in WrapperArgLists :
               WrapperReturns(ArgvOf(args),
                 initOrPrintUsageAndDieAfterInit(
                   init(Len(args) + 1, ArgvOf(args), flagMap, flagObj, output),
                   programName, positionalArgs, usageNotes, flagMap))
          /\ UNCHANGED <<flagMap, aborted>>

DieNext ==
  \/ \E d \in Declarations : DeclareFlag(d)
  \/ \E id \in 1..MaxFlags : DestroyFlag(id)
  \/ InitOrDie
  \/ \E p \in PositionalHints, u \in UsageNotes :
       InitOrPrintUsageAndDie(ProgramName, p, u)
  \/ ResetForTest
  \/ SetOutputStream
  \/ ReleaseArgs

DieSpec == Init /\ [][DieNext]_vars

\* ------------------------------------------- vocabulary of the properties
\* The state right after an init call that passed its assertion.
JustInit == op = "init" /\ ~aborted

\* The arguments in an argv array, without argv[0] and the terminator.
ArgsOf(av) == SubSeq(av, 2, Len(av) - 1)

IsFlagArg(a) == getFlagName(a) # <<>>

IsPositionalArg(a) == ~IsFlagArg(a)

\* The raw value text of a flag argument.
ValueTextOf(a) ==
  IF find(a, "=") = npos THEN <<>> ELSE substrFrom(a, find(a, "=") + 1)

\* The flag accepts the text: it parses as the flag's type and passes the
\* flag's validators.
Accepts(flag, text) == FlagParseValidateAndSet(flag, text, <<>>).ok

ValueFrom(flag, text) == FlagParseValidateAndSet(flag, text, <<>>).flag.value

\* With registry map and objects objs, the scan stops at argument a.
BadArgIn(map, objs, a) ==
  /\ IsFlagArg(a)
  /\ \/ getFlagName(a) \notin DOMAIN map
     \/ ~Accepts(objs[map[getFlagName(a)]], ValueTextOf(a))

\* The index of the argument the scan stops at, Len(args) + 1 if none.
FirstBadIn(map, objs, args) ==
  IF \E i \in 1..Len(args) : BadArgIn(map, objs, args[i])
  THEN CHOOSE i \in 1..Len(args) :
         /\ BadArgIn(map, objs, args[i])
         /\ \A j \in 1..(i - 1) : ~BadArgIn(map, objs, args[j])
  ELSE Len(args) + 1

\* The indices of the flag arguments naming n that the scan accepts.
AcceptedForIn(map, objs, args, n) ==
  {i \in 1..(FirstBadIn(map, objs, args) - 1) :
     IsFlagArg(args[i]) /\ getFlagName(args[i]) = n}

\* The same for the last init call and the current registry.
Args == ArgsOf(argvIn)

Positionals == SelectSeq(Args, IsPositionalArg)

Recognized(a) == getFlagName(a) \in DOMAIN flagMap

FlagNamed(n) == flagObj[flagMap[n]]

BadArg(a) == BadArgIn(flagMap, flagObj, a)

FirstBad == FirstBadIn(flagMap, flagObj, Args)

ScanCompletes == FirstBad = Len(Args) + 1

AcceptedFor(n) == AcceptedForIn(flagMap, flagObj, Args, n)

Max(S) == CHOOSE x \in S : \A y \in S : y <= x

Count(seq, x) == Cardinality({i \in 1..Len(seq) : seq[i] = x})

RequiredNames == {n \in DOMAIN flagMap : FlagNamed(n).isRequired}


\* ------------------------------------------------------------------- C1
\* C1: whenever init returns true, every registered flag that is required
\* has a value.
C1_RequiredFlagsHaveValue ==
  (JustInit /\ ret = "true") =>
    \A n \in RequiredNames : FlagNamed(n).hasValue

C1_Witness ==
  /\ JustInit /\ ret = "true"
  /\ \E n \in RequiredNames : FlagNamed(n).hasValue
  /\ Cardinality(DOMAIN flagMap) = 2

\* ------------------------------------------------------------------- C2
\* C2: when every flag argument is recognized and accepted and every
\* required flag is named, init returns true, argc is 1 + the number of
\* positional arguments, and argv holds argv[0], the positional arguments in
\* their original order and the terminator.
C2_CompactsPositionals ==
  (/\ JustInit
   /\ \A i \in 1..Len(Args) : ~BadArg(Args[i])
   /\ \A n \in RequiredNames : \E i \in 1..Len(Args) :
        IsFlagArg(Args[i]) /\ getFlagName(Args[i]) = n)
  => /\ ret = "true"
     /\ argc = 1 + Len(Positionals)
     /\ SubSeq(argv, 1, argc + 1) = <<argvIn[1]>> \o Positionals \o <<NULL>>

C2_Witness ==
  /\ JustInit /\ ret = "true"
  /\ Len(Args) = 3
  /\ Len(Positionals) = 2
  /\ Positionals[1] # Positionals[2]
  /\ IsFlagArg(Args[2])
  /\ argc = 3

\* ------------------------------------------------------------------- C3
\* C3: after init returns true, a registered flag that no flag argument
\* names has its default as value if it was declared with one, and has no
\* value if it was declared without one.
C3_DefaultsApplyIffUnset ==
  (JustInit /\ ret = "true") =>
    \A n \in DOMAIN flagMap :
      (\A i \in 1..Len(Args) : getFlagName(Args[i]) # n) =>
        IF FlagNamed(n).hasDefaultValue
        THEN /\ FlagNamed(n).hasValue
             /\ FlagNamed(n).value = FlagNamed(n).defaultValue
        ELSE ~FlagNamed(n).hasValue

C3_Witness ==
  /\ JustInit /\ ret = "true"
  /\ \A i \in 1..Len(Args) : IsPositionalArg(Args[i])
  /\ \E n \in DOMAIN flagMap :
       FlagNamed(n).hasDefaultValue /\ FlagNamed(n).hasValue
  /\ \E n \in DOMAIN flagMap :
       ~FlagNamed(n).hasDefaultValue /\ ~FlagNamed(n).hasValue

\* ------------------------------------------------------------------- C4
\* C4: a call of init while the latch is set (init has run since the start
\* or the last resetForTest) fails init's assertion and parses nothing: no
\* flag, no output, and nothing of the caller's changes.
C4_SecondInitIsFatal ==
  [][(op' = "init" /\ hasBeenInitialized) =>
       /\ aborted'
       /\ UNCHANGED <<hasBeenInitialized, flagMap, flagObj, output, argvIn,
                      argv, argc, ret, setLog>>]_vars

C4_Witness == aborted /\ op = "init" /\ hasBeenInitialized /\ ret = "true"

\* ------------------------------------------------------------------- C5
\* C5 as claimed: after init has returned false, the caller can call init
\* again and it is not a fatal error.
C5_Original_RetryAfterFailure ==
  [][(ret = "false" /\ op' = "init") => ~aborted']_vars

\* C5 as amended: an init that returns false leaves the latch set, and only
\* resetForTest clears it; calling init again after a failure is a fatal
\* assertion failure that parses nothing unless resetForTest has run since,
\* and after resetForTest the new call parses its arguments.
C5_RetryOnlyAfterReset ==
  [][/\ (op' = "init" /\ ~aborted' /\ ret' = "false") => hasBeenInitialized'
     /\ (hasBeenInitialized /\ op' # "resetForTest") => hasBeenInitialized'
     /\ (ret = "false" /\ op' = "init") =>
          IF hasBeenInitialized
          THEN aborted' /\ UNCHANGED <<flagObj, output, argvIn, argv, ret>>
          ELSE ~aborted' /\ argvIn' # <<>> /\ ret' \in {"true", "false"}
    ]_vars

C5_Witness ==
  /\ JustInit /\ retry /\ ret = "true"
  /\ setLog # <<>>

\* ------------------------------------------------------------------- C6
\* C6 as claimed: within one init run no flag is assigned more than once.
C6_Original_AssignedAtMostOnce ==
  JustInit => \A n \in DOMAIN flagMap : Count(setLog, n) <= 1

\* C6 as amended: within one init run a flag is assigned once for every
\* flag argument that names it and is accepted before the scan stops, so a
\* name may be accepted more than once; the flag ends with the value of the
\* last such argument.
C6_AssignedPerAcceptedArgument ==
  JustInit =>
    \A n \in DOMAIN flagMap :
      /\ Count(setLog, n) = Cardinality(AcceptedFor(n))
      /\ AcceptedFor(n) # {} =>
           /\ FlagNamed(n).hasValue
           /\ FlagNamed(n).value =
                ValueFrom(FlagNamed(n), ValueTextOf(Args[Max(AcceptedFor(n))]))

C6_Witness ==
  /\ JustInit
  /\ \E n \in DOMAIN flagMap :
       /\ Count(setLog, n) = 2
       /\ FlagNamed(n).type = "string"
       /\ Args[1] = <<"-", "-", "a", "=", "6">>
       /\ Args[2] = <<"-", "-", "a", "=", "1">>
       /\ FlagNamed(n).value = StringValue(<<"1">>)

\* ------------------------------------------------------------------- C7
\* C7: when the scan stops because a registered flag rejects its value text
\* (it does not parse, or a validator rejects it), that flag's value and
\* hasValue are what they were before the rejected assignment - the last
\* accepted value, else the default, else no value - and the last line
\* written is an "Invalid value for flag --<name>" line.
C7_FailedAssignmentKeepsValue ==
  (JustInit /\ ~ScanCompletes /\ Recognized(Args[FirstBad])) =>
    LET n    == getFlagName(Args[FirstBad])
        flag == FlagNamed(n)
    IN  /\ IF AcceptedFor(n) # {}
           THEN /\ flag.hasValue
                /\ flag.value =
                     ValueFrom(flag, ValueTextOf(Args[Max(AcceptedFor(n))]))
           ELSE /\ flag.hasValue = flag.hasDefaultValue
                /\ flag.value = IF flag.hasDefaultValue
                                THEN flag.defaultValue ELSE NoValue
        /\ output # <<>>
        /\ output[Len(output)][1] = "Invalid value for flag --"
        /\ output[Len(output)][2] = n

\* An int32 flag with a default and validators keeps the accepted 1 when the
\* later 6 is rejected by the validator.
C7_Witness ==
  /\ JustInit /\ ~ScanCompletes /\ FirstBad = 2
  /\ Recognized(Args[2])
  /\ getFlagName(Args[1]) = getFlagName(Args[2])
  /\ FlagNamed(getFlagName(Args[2])).hasDefaultValue
  /\ FlagNamed(getFlagName(Args[2])).value = Int32Value(1)
  /\ output = <<InvalidLine(<<"a">>, <<"6">>,
                            <<"Must be less than or equal to", 5>>)>>

\* ------------------------------------------------------------------- C8
\* The scan of the last init call stopped at a flag argument whose name is
\* not in the registry.
StoppedAtUnrecognized ==
  JustInit /\ ~ScanCompletes /\ ~Recognized(Args[FirstBad])

\* What C8 says of an init call that found objects objs0 and output out0
\* and left objs1, out1, log1 and r1, when its scan of args stops at index
\* first.
UnrecognizedOutcome(map, objs0, out0, objs1, out1, log1, r1, args, first) ==
  (first <= Len(args) /\ getFlagName(args[first]) \notin DOMAIN map) =>
    /\ r1 = "false"
    /\ out1 = Append(out0, UnrecognizedLine(getFlagName(args[first])))
    /\ Len(log1) = Cardinality({i \in 1..(first - 1) : IsFlagArg(args[i])})
    /\ \A id \in DOMAIN objs0 :
         LET acc == {i \in 1..(first - 1) :
                       /\ IsFlagArg(args[i])
                       /\ getFlagName(args[i]) = objs0[id].name}
         IN  objs1[id] =
               IF id \in {map[n] : n \in DOMAIN map} /\ acc # {}
               THEN [objs0[id] EXCEPT
                       !.hasValue = TRUE,
                       !.value = ValueFrom(objs0[id],
                                           ValueTextOf(args[Max(acc)]))]
               ELSE objs0[id]

\* C8: when init meets a flag argument whose name is not registered it
\* writes exactly one "Unrecognized command-line flag: --<name>" line,
\* returns false and processes no later argument: a flag that an earlier
\* argument set has that value, every other flag is as it was before.
C8_UnrecognizedStopsScan ==
  [][(op' = "init" /\ ~aborted') =>
       UnrecognizedOutcome(flagMap', flagObj, output, flagObj', output',
                           setLog', ret', ArgsOf(argvIn'),
                           FirstBadIn(flagMap', flagObj', ArgsOf(argvIn')))
    ]_vars

\* "--a --c --b": a is set, c is unknown, b is registered but never reached.
C8_Witness ==
  /\ StoppedAtUnrecognized
  /\ FirstBad = 2 /\ Len(Args) = 3
  /\ setLog = <<getFlagName(Args[1])>>
  /\ Recognized(Args[3])
  /\ getFlagName(Args[3]) # getFlagName(Args[1])
  /\ Accepts(FlagNamed(getFlagName(Args[3])), ValueTextOf(Args[3]))
  /\ ~FlagNamed(getFlagName(Args[3])).hasValue
  /\ output = <<UnrecognizedLine(<<"c">>)>>

\* ------------------------------------------------------------------- C9
\* The required flags of registry map that have no value in objs.
MissingIn(map, objs) ==
  {n \in DOMAIN map : objs[map[n]].isRequired /\ ~objs[map[n]].hasValue}

MissingNames == MissingIn(flagMap, flagObj)

\* What C9 says of an init call that found output out0 and left out1 and
\* r1, when its scan stops at index first and leaves the required flags
\* missing without a value; new is what the call wrote.
MissingOutcome(out0, out1, r1, args, first, missing, new) ==
  (first = Len(args) + 1 /\ missing # {}) =>
    /\ r1 = "false"
    /\ SubSeq(out1, 1, Len(out0)) = out0
    /\ Len(new) = Cardinality(missing)
    /\ \A i \in 1..Len(new) :
         /\ new[i][2] \in missing
         /\ new[i] = MissingLine(new[i][2])
    /\ \A i, j \in 1..Len(new) : i < j => StrLess(new[i][2], new[j][2])

\* C9: when the scan completes and k >= 1 required flags have no value,
\* init returns false and writes exactly k "Missing required command-line
\* flag" lines, one for each such flag, in ascending order of flag name.
C9_MissingRequiredReported ==
  [][(op' = "init" /\ ~aborted') =>
       MissingOutcome(output, output', ret', ArgsOf(argvIn'),
                      FirstBadIn(flagMap', flagObj', ArgsOf(argvIn')),
                      MissingIn(flagMap', flagObj'),
                      SubSeq(output', Len(output) + 1, Len(output')))
    ]_vars

\* b was declared before a; the lines come out as a, then b.
C9_Witness ==
  /\ JustInit /\ ScanCompletes
  /\ MissingNames = {<<"a">>, <<"b">>}
  /\ flagMap[<<"b">>] < flagMap[<<"a">>]
  /\ output = <<MissingLine(<<"a">>), MissingLine(<<"b">>)>>

\* ------------------------------------------------------------------ C10
\* What C10 says of an init call that found output out0 and left out1 and
\* r1, when its scan of args stops at index first.
FailFastOutcome(map, out0, out1, r1, args, first) ==
  first <= Len(args) =>
    /\ r1 = "false"
    /\ Len(out1) = Len(out0) + 1
    /\ SubSeq(out1, 1, Len(out0)) = out0
    /\ out1[Len(out1)][1] =
         IF getFlagName(args[first]) \in DOMAIN map
         THEN "Invalid value for flag --"
         ELSE "Unrecognized command-line flag: --"

\* C10: when the scan stops at an unrecognized flag or a rejected value,
\* init returns false having written exactly one line, which is the
\* "Unrecognized" or the "Invalid value" line, and no "Missing required"
\* line, even when required flags have no value.
C10_FailFastOneDiagnostic ==
  [][(op' = "init" /\ ~aborted') =>
       FailFastOutcome(flagMap', output, output', ret', ArgsOf(argvIn'),
                       FirstBadIn(flagMap', flagObj', ArgsOf(argvIn')))
    ]_vars

\* A required flag is still unset when its value is rejected.
C10_Witness ==
  /\ JustInit /\ ~ScanCompletes
  /\ Recognized(Args[FirstBad])
  /\ Cardinality(MissingNames) = 2
  /\ Len(output) = 1
  /\ output[1][1] = "Invalid value for flag --"

\* ------------------------------------------------------------------ C11
\* The validators that reject value v, by their position in the flag's
\* validator list.
Rejecting(flag, v) ==
  {k \in 1..Len(flag.validators) :
     checkValidationErrors(flag.validators[k], v) # <<>>}

C11Values == -1..7

\* What init leaves when its one argument is --n=<v> for an int32 flag n:
\* with no rejecting validator the value is assigned and nothing is
\* written; otherwise the flag is as before and the stream holds exactly
\* one line, with the message of the first rejecting validator.
ValidatedOutcome(flag0, flag1, out1, r1, v) ==
  IF Rejecting(flag0, Int32Value(v)) = {}
  THEN /\ r1 = "true"
       /\ flag1 = [flag0 EXCEPT !.value = Int32Value(v), !.hasValue = TRUE]
       /\ out1 = <<>>
  ELSE /\ r1 = "false"
       /\ flag1 = flag0
       /\ out1 = <<InvalidLine(flag0.name, Int32ToText(v),
                     checkValidationErrors(
                       flag0.validators[
                         CHOOSE k \in Rejecting(flag0, Int32Value(v)) :
                           \A j \in Rejecting(flag0, Int32Value(v)) : k <= j],
                       Int32Value(v)))>>

\* C11: a supplied value is checked against the flag's validators in the
\* order they were declared and is accepted only if every validator returns
\* an empty error; the first validator that rejects ends the check, and
\* exactly one error line, with that validator's message, is written.
C11_ValidatorsInOrder ==
  [][(op' = "init" /\ flagObj[1].type = "int32")
       => \A v \in C11Values :
            argvIn'[2] = <<"-", "-", "n", "=">> \o Int32ToText(v)
              => ValidatedOutcome(flagObj[1], flagObj'[1], output', ret', v)
    ]_vars

\* Both validators reject 6; only the first one's line is written.
C11_Witness ==
  /\ op = "init"
  /\ flagObj[1].validators = <<LessOrEqual5, LessOrEqual2>>
  /\ argvIn[2] = <<"-", "-", "n", "=", "6">>
  /\ ret = "false"
  /\ output = <<InvalidLine(FlagN, <<"6">>,
                            <<"Must be less than or equal to", 5>>)>>

\* ------------------------------------------------------------------ C12
\* The flag has a default value that one of its own validators rejects.
HasRejectedDefault(flag) ==
  flag.hasDefaultValue /\ Rejecting(flag, flag.defaultValue) # {}

\* No line of the stream is an error line about flag n.
NoErrorLineFor(out, n) ==
  \A i \in 1..Len(out) :
    ~(out[i][1] = "Invalid value for flag --" /\ out[i][2] = n)

\* The flag objects a constructor call has added.
Constructed(objs0, objs1) == DOMAIN objs1 \ DOMAIN objs0

AfterConstruction(objs0, objs1, out0, out1) ==
  \A id \in Constructed(objs0, objs1) :
    HasRejectedDefault(objs1[id])
      => /\ objs1[id].hasValue
         /\ objs1[id].value = objs1[id].defaultValue
         /\ out1 = out0

AfterUnnamingInit(map, objs1, out1, args) ==
  \A n \in DOMAIN map :
    (/\ HasRejectedDefault(objs1[map[n]])
     /\ \A i \in 1..Len(args) : getFlagName(args[i]) # n)
      => /\ objs1[map[n]].hasValue
         /\ objs1[map[n]].value = objs1[map[n]].defaultValue
         /\ NoErrorLineFor(out1, n)

\* C12: validators are never invoked on a default value: a flag declared
\* with a default that its own validators would reject has hasValue() true
\* and value() equal to that default after construction and after a
\* successful init that does not name it, and no error line is written for
\* it.
C12_DefaultBypassesValidators ==
  [][/\ (op' = "declare" /\ ~aborted')
          => AfterConstruction(flagObj, flagObj', output, output')
     /\ (op' = "init" /\ ~aborted' /\ ret' = "true")
          => AfterUnnamingInit(flagMap', flagObj', output', ArgsOf(argvIn'))
    ]_vars

\* A successful init that assigns b and leaves a at its default 0, which
\* a's validator greater(0) rejects.
C12_Witness ==
  /\ JustInit
  /\ ret = "true"
  /\ setLog = <<<<"b">>>>
  /\ <<"a">> \in DOMAIN flagMap
  /\ FlagNamed(<<"a">>).validators = <<Greater0, LessOrEqual5>>
  /\ FlagNamed(<<"a">>).hasDefaultValue
  /\ FlagNamed(<<"a">>).hasValue
  /\ FlagNamed(<<"a">>).value = Int32Value(0)
  /\ output = <<>>

\* ------------------------------------------------------------------ C13
\* The argument is --n or --n=<text>.
NamesN(a) ==
  \/ a = <<"-", "-", "n">>
  \/ Len(a) >= 4 /\ SubSeq(a, 1, 4) = <<"-", "-", "n", "=">>

\* The value text of such an argument.
TextForN(a) == SubSeq(a, 5, Len(a))

UpperCase ==
  ("t" :> "T") @@ ("r" :> "R") @@ ("u" :> "U") @@ ("e" :> "E") @@
  ("f" :> "F") @@ ("a" :> "A") @@ ("l" :> "L") @@ ("s" :> "S")

\* u is word (given in lower case) in some mix of letter cases.
AnyCase(u, word) ==
  /\ Len(u) = Len(word)
  /\ \A k \in 1..Len(word) : u[k] \in {word[k], UpperCase[word[k]]}

OnlyWhitespace(t) == \A k \in 1..Len(t) : t[k] \in Whitespace

\* t is word in some mix of letter cases with whitespace around it.
IsPadded(t, word) ==
  \E l \in 0..Len(t), r \in 0..Len(t) :
    /\ l + r <= Len(t)
    /\ OnlyWhitespace(SubSeq(t, 1, l))
    /\ OnlyWhitespace(SubSeq(t, Len(t) - r + 1, Len(t)))
    /\ AnyCase(SubSeq(t, l + 1, Len(t) - r), word)

TrueWord  == <<"t", "r", "u", "e">>
FalseWord == <<"f", "a", "l", "s", "e">>

\* What init leaves for a bool flag n when its one argument has value text
\* t; meansTrue and meansFalse say how t is read.
BoolOutcome(flag0, flag1, out1, r1, t, meansTrue, meansFalse) ==
  IF meansTrue
  THEN /\ flag1 = [flag0 EXCEPT !.value = BoolValue(TRUE), !.hasValue = TRUE]
       /\ out1 = <<>>
       /\ r1 = "true"
  ELSE IF meansFalse
  THEN /\ flag1 = [flag0 EXCEPT !.value = BoolValue(FALSE), !.hasValue = TRUE]
       /\ out1 = <<>>
       /\ r1 = "true"
  ELSE /\ flag1 = flag0
       /\ out1 = <<InvalidLine(flag0.name, t, <<"Must be true or false.">>)>>
       /\ r1 = "false"

\* C13 as stated: a bool flag accepts exactly 'true' or 'false' in any letter
\* case with surrounding whitespace, or the empty string; the empty string
\* and 'true' set it to true, 'false' to false, and any other text is
\* rejected with "Must be true or false." and leaves the flag unchanged.
C13_Original_BoolTexts ==
  [][(op' = "init" /\ flagObj[1].type = "bool" /\ NamesN(argvIn'[2]))
       => BoolOutcome(flagObj[1], flagObj'[1], output', ret',
                      TextForN(argvIn'[2]),
                      \/ TextForN(argvIn'[2]) = <<>>
                      \/ IsPadded(TextForN(argvIn'[2]), TrueWord),
                      IsPadded(TextForN(argvIn'[2]), FalseWord))
    ]_vars

\* C13: a bool flag accepts exactly the texts that, with surrounding
\* whitespace trimmed, are 'true' or 'false' in any letter case or are
\* empty; so a text of whitespace only is accepted like the empty string.
\* An empty trimmed text and 'true' set the flag to true, 'false' sets it to
\* false, and any other text is rejected with "Must be true or false." and
\* leaves the flag unchanged.
C13_BoolTexts ==
  [][(op' = "init" /\ flagObj[1].type = "bool" /\ NamesN(argvIn'[2]))
       => BoolOutcome(flagObj[1], flagObj'[1], output', ret',
                      TextForN(argvIn'[2]),
                      \/ OnlyWhitespace(TextForN(argvIn'[2]))
                      \/ IsPadded(TextForN(argvIn'[2]), TrueWord),
                      IsPadded(TextForN(argvIn'[2]), FalseWord))
    ]_vars

\* --n=" " has set a bool flag without a default to true.
C13_Witness ==
  /\ op = "init"
  /\ flagObj[1].type = "bool"
  /\ ~flagObj[1].hasDefaultValue
  /\ argvIn[2] = <<"-", "-", "n", "=", " ">>
  /\ flagObj[1].hasValue
  /\ flagObj[1].value = BoolValue(TRUE)
  /\ ret = "true"
  /\ output = <<>>

\* ------------------------------------------------------------------ C14
\* The number of whitespace characters t starts with, and ends with.
LeadWs(t) ==
  Cardinality({k \in 1..Len(t) : \A j \in 1..k : t[j] \in Whitespace})

TrailWs(t) ==
  Cardinality({k \in 1..Len(t) : \A j \in k..Len(t) : t[j] \in Whitespace})

\* t without the whitespace around it.
Core(t) ==
  IF OnlyWhitespace(t) THEN <<>>
  ELSE SubSeq(t, LeadWs(t) + 1, Len(t) - TrailWs(t))

IsNegative(c) == c # <<>> /\ c[1] = "-"

\* c without its sign, if it has one.
Magnitude(c) ==
  IF c # <<>> /\ c[1] \in {"+", "-"} THEN SubSeq(c, 2, Len(c)) ELSE c

\* t is a decimal number: an optional sign and at least one digit, possibly
\* with whitespace before and after.
IsDecimal(t) ==
  /\ Magnitude(Core(t)) # <<>>
  /\ \A k \in 1..Len(Magnitude(Core(t))) : Magnitude(Core(t))[k] \in Digits

\* The digits m from the first one that is not 0 (the last one if all are).
Significant(m) ==
  SubSeq(m,
         IF \E k \in 1..Len(m) : m[k] # "0"
         THEN CHOOSE k \in 1..Len(m) :
                m[k] # "0" /\ \A j \in 1..(k - 1) : m[j] = "0"
         ELSE Len(m),
         Len(m))

\* The number written ds is at most the number written limit.
NotAbove(ds, limit) ==
  \/ Len(ds) < Len(limit)
  \/ /\ Len(ds) = Len(limit)
     /\ \/ ds = limit
        \/ \E k \in 1..Len(ds) :
             /\ DigitVal[ds[k]] < DigitVal[limit[k]]
             /\ \A j \in 1..(k - 1) : ds[j] = limit[j]

\* The decimal number t lies between -minDigits and maxDigits.
InRange(t, maxDigits, minDigits) ==
  NotAbove(Significant(Magnitude(Core(t))),
           IF IsNegative(Core(t)) THEN minDigits ELSE maxDigits)

RECURSIVE Pow10(_)
Pow10(k) == IF k = 0 THEN 1 ELSE 10 * Pow10(k - 1)

\* The number that the digits ds write, negated if sign is -1.
RECURSIVE SignedSum(_, _)
SignedSum(ds, sign) ==
  IF ds = <<>> THEN 0
  ELSE sign * DigitVal[Head(ds)] * Pow10(Len(ds) - 1)
         + SignedSum(Tail(ds), sign)

\* The int32 that the decimal number t writes.
NumberOf(t) ==
  SignedSum(Significant(Magnitude(Core(t))),
            IF IsNegative(Core(t)) THEN -1 ELSE 1)

\* The numeral of the int64 that the decimal number t writes.
NumeralOf(t) ==
  IF IsNegative(Core(t)) /\ Significant(Magnitude(Core(t))) # <<"0">>
  THEN <<"-">> \o Significant(Magnitude(Core(t)))
  ELSE Significant(Magnitude(Core(t)))

\* What init leaves for an integer flag n without validators when its one
\* argument has value text t.
IntegerOutcome(flag0, flag1, out1, r1, t, accepted, value, message) ==
  IF accepted
  THEN /\ flag1 = [flag0 EXCEPT !.value = value, !.hasValue = TRUE]
       /\ out1 = <<>>
       /\ r1 = "true"
  ELSE /\ flag1 = flag0
       /\ out1 = <<InvalidLine(flag0.name, t, <<message>>)>>
       /\ r1 = "false"

Int32Outcome(flag0, flag1, out1, r1, t) ==
  IF IsDecimal(t) /\ InRange(t, Int32MaxDigits, Int32MinDigits)
  THEN IntegerOutcome(flag0, flag1, out1, r1, t, TRUE,
                      Int32Value(NumberOf(t)), "Must be an int32 number.")
  ELSE IntegerOutcome(flag0, flag1, out1, r1, t, FALSE,
                      NoValue, "Must be an int32 number.")

Int64Outcome(flag0, flag1, out1, r1, t) ==
  IF IsDecimal(t) /\ InRange(t, Int64MaxDigits, Int64MinDigits)
  THEN IntegerOutcome(flag0, flag1, out1, r1, t, TRUE,
                      Int64Value(NumeralOf(t)), "Must be an int64 number.")
  ELSE IntegerOutcome(flag0, flag1, out1, r1, t, FALSE,
                      NoValue, "Must be an int64 number.")

\* C14: an int32 flag accepts a decimal text (optional sign, digits,
\* whitespace allowed around the number) iff its value lies in
\* [-2147483648, 2147483647] and then stores exactly that value; a text one
\* past either end of the range, a text that is not a number and a number
\* followed by anything but whitespace are rejected with "Must be an int32
\* number."; an int64 flag behaves the same over the signed 64-bit range
\* with "Must be an int64 number.".
C14_IntegerTexts ==
  [][(op' = "init" /\ NamesN(argvIn'[2]) /\ flagObj[1].validators = <<>>)
       => /\ flagObj[1].type = "int32"
               => Int32Outcome(flagObj[1], flagObj'[1], output', ret',
                               TextForN(argvIn'[2]))
          /\ flagObj[1].type = "int64"
               => Int64Outcome(flagObj[1], flagObj'[1], output', ret',
                               TextForN(argvIn'[2]))
    ]_vars

\* --n=-2147483648 has given an int32 flag the least int32.
C14_Witness ==
  /\ op = "init"
  /\ flagObj[1].type = "int32"
  /\ ~flagObj[1].hasDefaultValue
  /\ argvIn[2] = <<"-", "-", "n", "=", "-">> \o Int32MinDigits
  /\ flagObj[1].hasValue
  /\ flagObj[1].value = Int32Value(-2147483647 - 1)
  /\ ret = "true"
  /\ output = <<>>

\* ------------------------------------------------------------------ C15
\* What init leaves for a string flag n when its one argument has value
\* text t: the text is stored as it is unless a validator rejects it.
StringOutcome(flag0, flag1, out1, r1, t) ==
  IF Rejecting(flag0, StringValue(t)) = {}
  THEN /\ flag1 = [flag0 EXCEPT !.value = StringValue(t), !.hasValue = TRUE]
       /\ out1 = <<>>
       /\ r1 = "true"
  ELSE /\ flag1 = flag0
       /\ Len(out1) = 1
       /\ \E k \in Rejecting(flag0, StringValue(t)) :
            out1[1] = InvalidLine(flag0.name, t,
                        checkValidationErrors(flag0.validators[k],
                                              StringValue(t)))
       /\ r1 = "false"

\* C15: a string flag accepts any value text, the empty string and text of
\* whitespace only included, and stores it verbatim, without trimming; its
\* assignment can fail only through one of its validators.
C15_StringTexts ==
  [][(op' = "init" /\ flagObj[1].type = "string" /\ NamesN(argvIn'[2]))
       => StringOutcome(flagObj[1], flagObj'[1], output', ret',
                        TextForN(argvIn'[2]))
    ]_vars

\* --n=" true\t" is stored with its whitespace.
C15_Witness ==
  /\ op = "init"
  /\ flagObj[1].type = "string"
  /\ flagObj[1].validators = <<>>
  /\ argvIn[2] = <<"-", "-", "n", "=", " ", "t", "r", "u", "e", "\t">>
  /\ flagObj[1].hasValue
  /\ flagObj[1].value = StringValue(<<" ", "t", "r", "u", "e", "\t">>)
  /\ ret = "true"
  /\ output = <<>>

\* ------------------------------------------------------------------ C16
\* The line reports a registry lookup that failed or a value that the flag
\* found did not take.
IsLookupLine(line) ==
  line[1] \in {"Unrecognized command-line flag: --", "Invalid value for flag --"}

\* What init leaves for its one argument: a flag argument is looked up in
\* the registry (a flag is assigned, or the one line written reports the
\* lookup or the value); a positional argument stays in argv, argc counts
\* it, no flag changes and no line reports a lookup.
ClassifiedOutcome(isFlag, objs0, objs1, out1, log1, argvIn1, argv1, argc1) ==
  IF isFlag
  THEN \/ log1 # <<>>
       \/ Len(out1) = 1 /\ IsLookupLine(out1[1])
  ELSE /\ log1 = <<>>
       /\ objs1 = objs0
       /\ argv1 = argvIn1
       /\ argc1 = 2
       /\ \A i \in 1..Len(out1) : ~IsLookupLine(out1[i])

\* C16 as stated: an argument is a flag argument iff it starts with "--" and
\* has at least one character after that prefix; every other argument is
\* positional, is kept in argv and is never looked up in the registry.
C16_Original_FlagIffPrefixed ==
  [][op' = "init"
       => ClassifiedOutcome(/\ Len(argvIn'[2]) >= 3
                            /\ SubSeq(argvIn'[2], 1, 2) = <<"-", "-">>,
                            flagObj, flagObj', output', setLog',
                            argvIn', argv', argc')
    ]_vars

\* C16: an argument is a flag argument iff it starts with "--" and the
\* character after that prefix exists and is not "=", so that the flag name
\* is not empty; every other argument ("--" alone, "--=<text>" and
\* single-dash arguments included) is positional, is kept in argv and is
\* never looked up in the registry.
C16_FlagIffNamed ==
  [][op' = "init"
       => ClassifiedOutcome(/\ Len(argvIn'[2]) >= 3
                            /\ SubSeq(argvIn'[2], 1, 2) = <<"-", "-">>
                            /\ argvIn'[2][3] # "=",
                            flagObj, flagObj', output', setLog',
                            argvIn', argv', argc')
    ]_vars

\* --=5 has been kept in argv as a positional argument.
C16_Witness ==
  /\ op = "init"
  /\ argvIn[2] = <<"-", "-", "=", "5">>
  /\ argv = <<ProgramName, <<"-", "-", "=", "5">>, NULL>>
  /\ argc = 2
  /\ setLog = <<>>
  /\ output = <<>>
  /\ ret = "true"

\* ------------------------------------------------------------------ C17
\* The position of the first "=" of a, Len(a) + 1 if it has none.
FirstEquals(a) ==
  IF \A i \in 1..Len(a) : a[i] # "=" THEN Len(a) + 1
  ELSE CHOOSE i \in 1..Len(a) :
         a[i] = "=" /\ \A j \in 1..(i - 1) : a[j] # "="

\* The text between the prefix and the first "=", and the text after it.
NameOf(a) == SubSeq(a, 3, FirstEquals(a) - 1)

TextOf(a) == SubSeq(a, FirstEquals(a) + 1, Len(a))

\* What init leaves for one flag argument with name and value text as
\* given, n being the only registered flag: another name is reported as
\* unrecognized; a string flag takes the text as it is, and a line about a
\* text that does not parse quotes that text.
ExtractedOutcome(flag0, flag1, out1, r1, name, text) ==
  IF name # flag0.name
  THEN /\ flag1 = flag0
       /\ out1 = <<UnrecognizedLine(name)>>
       /\ r1 = "false"
  ELSE /\ flag0.type = "string"
            => StringOutcome(flag0, flag1, out1, r1, text)
       /\ (flag0.type # "string" /\ flag0.validators = <<>>)
            => \/ out1 = <<>> /\ flag1.hasValue /\ r1 = "true"
               \/ /\ Len(out1) = 1
                  /\ out1[1][1] = "Invalid value for flag --"
                  /\ out1[1][2] = name
                  /\ out1[1][3] = text
                  /\ flag1 = flag0

\* C17: for a flag argument the flag name is the text between the "--"
\* prefix and the first "=" (or the end of the argument when there is no
\* "="), and the raw value text is everything after that first "=" (so
\* --n=a=b gives name n and value a=b), or the empty string when there is
\* no "=".
C17_NameAndValueText ==
  [][(/\ op' = "init"
      /\ Len(argvIn'[2]) >= 3
      /\ SubSeq(argvIn'[2], 1, 2) = <<"-", "-">>
      /\ argvIn'[2][3] # "=")
       => ExtractedOutcome(flagObj[1], flagObj'[1], output', ret',
                           NameOf(argvIn'[2]), TextOf(argvIn'[2]))
    ]_vars

\* --n=a=b has given the string flag n the value a=b.
C17_Witness ==
  /\ op = "init"
  /\ flagObj[1].type = "string"
  /\ flagObj[1].validators = <<>>
  /\ argvIn[2] = <<"-", "-", "n", "=", "a", "=", "b">>
  /\ flagObj[1].hasValue
  /\ flagObj[1].value = StringValue(<<"a", "=", "b">>)
  /\ setLog = <<FlagN>>
  /\ ret = "true"

\* ---------------------------------------------------------------- C18
\* Some registered flag is required.
AnyRequired(map, objs) == \E n \in DOMAIN map : objs[map[n]].isRequired

\* What follows the program name on the usage line for this registry and
\* this hint.
FlagsToken(map, objs) ==
  IF AnyRequired(map, objs) THEN <<" flags">>
  ELSE IF DOMAIN map # {} THEN <<" [flags]">>
  ELSE <<>>

HintToken(positionalArgs) ==
  IF positionalArgs # <<>> THEN <<" ", positionalArgs>> ELSE <<>>

\* out1 is what printUsage(ProgramName, p, u) wrote on a new stream.
UsageLineOutcome(map, objs, out1, p, u) ==
  /\ Len(out1) >= 1
  /\ out1[1] = <<"Usage: ", ProgramName>> \o FlagsToken(map, objs) \o HintToken(p)
  /\ (u # <<>>) <=> (Len(out1) >= 2 /\ out1[2] = <<"  ", u>>)
  /\ (u = <<>>) => \A i \in 2..Len(out1) : out1[i][1] # "  "

\* C18: the first line printUsage writes is "Usage: <programName>", then
\* " flags" iff some registered flag is required, " [flags]" iff flags are
\* registered and none is required, neither iff no flag is registered, then
\* " <positionalArgs>" iff the hint is not empty; the notes line follows iff
\* the notes are not empty.
C18_UsageLine ==
  [][\A p \in PositionalHints, u \in UsageNotes :
       PrintUsage(ProgramName, p, u)
         => UsageLineOutcome(flagMap, flagObj, output', p, u)]_vars

\* printUsage has written " flags", the hint and the notes for a registry
\* with a required flag, and " [flags]" is what an optional flag gets.
C18_Witness ==
  /\ op = "printUsage"
  /\ AnyRequired(flagMap, flagObj)
  /\ \E n \in DOMAIN flagMap : ~flagObj[flagMap[n]].isRequired
  /\ output[1] = <<"Usage: ", ProgramName, " flags", " ", <<"<files>">>>>
  /\ output[2] = <<"  ", <<"notes">>>>

\* ---------------------------------------------------------------- C19
\* The line is the entry of the flag named n.
IsEntryOf(line, n) == Len(line) >= 4 /\ line[1] = "  --" /\ line[2] = n

IsEntry(line) == Len(line) >= 4 /\ line[1] = "  --"

\* The lines of out that are the label.
LabelLines(out, label) == {i \in DOMAIN out : out[i] = <<label>>}

\* The entries of out between line i and the next label or the end.
BlockOf(out, i) ==
  {j \in (i + 1)..Len(out) : \A k \in (i + 1)..j : IsEntry(out[k])}

\* The registered flags whose requiredness is required.
NamesOf(map, objs, required) ==
  {n \in DOMAIN map : objs[map[n]].isRequired = required}

\* out has one block for the flags of this requiredness, headed by an empty
\* line and the label, if there are any, and no such label otherwise.
BlockOutcome(map, objs, out, label, required) ==
  IF NamesOf(map, objs, required) = {}
  THEN LabelLines(out, label) = {}
  ELSE /\ Cardinality(LabelLines(out, label)) = 1
       /\ \A i \in LabelLines(out, label) :
            /\ i > 1 /\ out[i - 1] = <<"">>
            /\ Cardinality(BlockOf(out, i))
                 = Cardinality(NamesOf(map, objs, required))
            /\ \A n \in NamesOf(map, objs, required) :
                 \E j \in BlockOf(out, i) : IsEntryOf(out[j], n)
            /\ \A j, k \in BlockOf(out, i) :
                 j < k => StrLess(out[j][2], out[k][2])

\* The entry of a flag: name, description and the default iff it has one.
EntryOutcome(flag, line) ==
  /\ line[3] = ": " /\ line[4] = flag.description
  /\ IF flag.hasDefaultValue
     THEN /\ Len(line) = 7
          /\ line[5] = " (default: "
          /\ line[6] = printableDefaultValue(flag)
          /\ line[7] = ")"
     ELSE Len(line) = 4

\* out1 is what printUsage wrote on a new stream.
UsageBlocksOutcome(map, objs, out1) ==
  /\ BlockOutcome(map, objs, out1, "Required flags:", TRUE)
  /\ BlockOutcome(map, objs, out1, "Optional flags:", FALSE)
  /\ \A i \in LabelLines(out1, "Required flags:") :
       \A j \in LabelLines(out1, "Optional flags:") : i < j
  /\ \A n \in DOMAIN map :
       /\ Cardinality({i \in DOMAIN out1 : IsEntryOf(out1[i], n)}) = 1
       /\ \A i \in DOMAIN out1 :
            IsEntryOf(out1[i], n) => EntryOutcome(objs[map[n]], out1[i])
  /\ \A i \in DOMAIN out1 : IsEntry(out1[i]) => out1[i][2] \in DOMAIN map

\* C19: printUsage lists every registered flag exactly once, the required
\* ones under "Required flags:" and the optional ones under a following
\* "Optional flags:", a block only if it has entries, the entries of a block
\* in ascending order of name whatever the order of declaration, and
\* "(default: <value>)" on an entry iff the flag has a default value.
C19_UsageBlocks ==
  [][\A p \in PositionalHints, u \in UsageNotes :
       PrintUsage(ProgramName, p, u)
         => UsageBlocksOutcome(flagMap, flagObj, output')]_vars

\* b was declared before a, both optional with a default, and printUsage
\* has listed a before b under "Optional flags:" with their defaults.
C19_Witness ==
  /\ op = "printUsage"
  /\ DOMAIN flagMap = {<<"a">>, <<"b">>}
  /\ flagMap[<<"b">>] < flagMap[<<"a">>]
  /\ output = << <<"Usage: ", ProgramName, " [flags]">>,
                 <<"">>,
                 <<"Optional flags:">>,
                 <<"  --", <<"a">>, ": ", AboutA, " (default: ", <<"0">>, ")">>,
                 <<"  --", <<"b">>, ": ", AboutB, " (default: ",
                   <<"f", "a", "l", "s", "e">>, ")">> >>

\* ---------------------------------------------------------------- C20
\* What the caller of init sees of a call.
Observed(r) ==
  [ret |-> r.ret, argv |-> r.argv, argc |-> r.argc, out |-> r.out,
   log |-> r.log]

\* init called with these arguments on a new stream.
ObservedInit(args, map, objs) ==
  Observed(init(Len(args) + 1, ArgvOf(args), map, objs, <<>>))

\* The registry map1, the latch latch1 and the objects objs1 are as after a
\* process start for the flags that before held: init does not recognize
\* them nor miss them, printUsage does not list them, and their names can
\* be registered.
AfterReset(before, map1, latch1, objs1) ==
  /\ map1 = EmptyMap
  /\ InitAssertion(latch1)
  /\ ObservedInit(<<>>, map1, objs1) = ObservedInit(<<>>, EmptyMap, <<>>)
  /\ ObservedInit(<<>>, map1, objs1).ret
  /\ ObservedInit(<<>>, map1, objs1).out = <<>>
  /\ printUsage(ProgramName, <<>>, <<>>, map1, objs1, <<>>)
       = << <<"Usage: ", ProgramName>> >>
  /\ \A n \in DOMAIN before :
       /\ CanRegister(n, map1)
       /\ ObservedInit(<< <<"-", "-">> \o n >>, map1, objs1)
            = ObservedInit(<< <<"-", "-">> \o n >>, EmptyMap, <<>>)
       /\ ~ObservedInit(<< <<"-", "-">> \o n >>, map1, objs1).ret
       /\ ObservedInit(<< <<"-", "-">> \o n >>, map1, objs1).out
            = <<UnrecognizedLine(n)>>

\* C20: after resetForTest the registry is empty and the latch is clear, as
\* after a process start: a flag registered before the reset is not
\* recognized by init, is not checked as required, is not listed by
\* printUsage, and its name can be declared again.
C20_ResetIsFreshStart ==
  [][ResetForTest
       => AfterReset(flagMap, flagMap', hasBeenInitialized', flagObj')]_vars

\* resetForTest has run after an init call, and a required flag of before,
\* never given a value, is still alive.
C20_Witness ==
  /\ op = "resetForTest"
  /\ ret # "none"
  /\ flagMap = EmptyMap
  /\ ~hasBeenInitialized
  /\ \E id \in DOMAIN flagObj :
       flagObj[id].isRequired /\ ~flagObj[id].hasValue

\* ---------------------------------------------------------------- C21
\* The key n of map points to a flag that is alive and is named n.
KeyNamesFlag(n, map, objs) ==
  map[n] \in DOMAIN objs /\ objs[map[n]].name = n

\* The constructor call d, made with registry map0 and objects objs0, has
\* left map1 and objs1: a name that cannot be registered is fatal, and
\* otherwise one key, the name, is added for one new object of that name.
RegisteredOnce(d, map0, objs0, map1, objs1, aborted1) ==
  IF d.name = <<>> \/ d.name \in DOMAIN map0
  THEN aborted1 /\ map1 = map0 /\ objs1 = objs0
  ELSE IF d.description = <<>> THEN aborted1
  ELSE /\ ~aborted1
       /\ DOMAIN map1 = DOMAIN map0 \cup {d.name}
       /\ \A n \in DOMAIN map0 : map1[n] = map0[n]
       /\ map1[d.name] \notin DOMAIN objs0
       /\ DOMAIN objs1 = DOMAIN objs0 \cup {map1[d.name]}
       /\ KeyNamesFlag(d.name, map1, objs1)
       /\ Cardinality({i \in DOMAIN objs1 : objs1[i].name = d.name}) = 1

\* C21 as stated: in every state each registry key is non-empty and maps to
\* one flag whose name is the key.
C21_Original_KeysNameTheirFlags ==
  \A n \in DOMAIN flagMap : n # <<>> /\ KeyNamesFlag(n, flagMap, flagObj)

\* C21: constructing a flag registers it once under its name, a name
\* already registered is fatal, every key is non-empty, and a key maps to
\* the flag of that name from its registration until that flag is
\* destroyed or the registry is reset.
C21_RegisteredOnceUntilDestroyed ==
  [][/\ \A d \in Declarations :
          DeclareFlag(d)
            => RegisteredOnce(d, flagMap, flagObj, flagMap', flagObj', aborted')
     /\ \A n \in DOMAIN flagMap' : n # <<>>
     /\ \A n \in DOMAIN flagMap \cap DOMAIN flagMap' :
          (KeyNamesFlag(n, flagMap, flagObj) /\ flagMap[n] \in DOMAIN flagObj')
            => KeyNamesFlag(n, flagMap', flagObj')]_vars

\* A flag has been constructed and its key names it, while another key is
\* still that of a flag that has been destroyed.
C21_Witness ==
  /\ op = "declare"
  /\ ~aborted
  /\ \E n \in DOMAIN flagMap : KeyNamesFlag(n, flagMap, flagObj)
  /\ \E n \in DOMAIN flagMap : ~KeyNamesFlag(n, flagMap, flagObj)

\* ---------------------------------------------------------------- C22
\* What init returns for the arguments passed, on a new stream.
UnderlyingInit(passed, map, objs) ==
  init(Len(passed) - 1, passed, map, objs, <<>>)

\* The line starts a usage text.
IsUsageLine(line) == line[1] = "Usage: "

\* out ends with the usage text.
UsageTextEnds(out, usage) ==
  /\ Len(out) >= Len(usage)
  /\ SubSeq(out, Len(out) - Len(usage) + 1, Len(out)) = usage

\* A wrapper whose init call returned r has left out1 and exit1: it
\* returns iff init returned true, and otherwise the process has exited
\* with the failure status; out1 is what init wrote, followed by the usage
\* text iff printsUsage and init returned false.
WrapperOutcome(r, out1, exit1, printsUsage) ==
  /\ (exit1 = "none") <=> r.ret
  /\ (exit1 = EXIT_FAILURE) <=> ~r.ret
  /\ Len(out1) >= Len(r.out)
  /\ SubSeq(out1, 1, Len(r.out)) = r.out
  /\ ~r.ret => r.out # <<>>
  /\ IF printsUsage /\ ~r.ret
     THEN /\ Len(out1) > Len(r.out)
          /\ IsUsageLine(out1[Len(r.out) + 1])
     ELSE out1 = r.out
  /\ r.ret => \A i \in DOMAIN out1 : ~IsUsageLine(out1[i])

\* C22: initOrDie and initOrPrintUsageAndDie return iff the underlying init
\* returns true; when it returns false the process ends with the failure
\* exit status, initOrPrintUsageAndDie having printed the usage after
\* init's diagnostics; neither prints the usage on success, and nothing
\* runs after the exit.
C22_WrappersDieOnFailure ==
  [][/\ exitStatus = "none"
     /\ (op' = "initOrDie" /\ ~aborted')
          => WrapperOutcome(UnderlyingInit(argvIn', flagMap, flagObj),
                            output', exitStatus', FALSE)
     /\ (op' = "initOrPrintUsageAndDie" /\ ~aborted')
          => /\ WrapperOutcome(UnderlyingInit(argvIn', flagMap, flagObj),
                               output', exitStatus', TRUE)
             /\ exitStatus' = EXIT_FAILURE
                  => \E p \in PositionalHints, u \in UsageNotes :
                       UsageTextEnds(output', printUsage(ProgramName, p, u, flagMap, flagObj', <<>>))]_vars

\* initOrPrintUsageAndDie has ended the process: init's diagnostic comes
\* first and the usage text after it.
C22_Witness ==
  /\ op = "initOrPrintUsageAndDie"
  /\ exitStatus = EXIT_FAILURE
  /\ ret = "false"
  /\ Len(output) >= 2
  /\ ~IsUsageLine(output[1])
  /\ IsUsageLine(output[2])

\* ---------------------------------------------------------------- C23
\* A flag with a default is optional and has a value; a required flag has
\* no default.
DefaultMeansOptional(flag) ==
  /\ flag.hasDefaultValue => (~flag.isRequired /\ flag.hasValue)
  /\ flag.isRequired => ~flag.hasDefaultValue

\* C23: in every state a flag that has a default value is optional and has
\* a value, and a required flag has no default value; a required flag is
\* constructed without a value.
C23_DefaultMeansOptional ==
  [][/\ \A id \in DOMAIN flagObj' : DefaultMeansOptional(flagObj'[id])
     /\ (op' = "declare" /\ ~aborted')
          => \A id \in DOMAIN flagObj' \ DOMAIN flagObj :
               flagObj'[id].isRequired => ~flagObj'[id].hasValue]_vars

\* A flag with a default and a required flag, just constructed, are alive.
C23_Witness ==
  /\ op = "declare"
  /\ ~aborted
  /\ \E id \in DOMAIN flagObj :
       flagObj[id].hasDefaultValue /\ flagObj[id].hasValue
  /\ \E id \in DOMAIN flagObj :
       flagObj[id].isRequired /\ ~flagObj[id].hasValue

\* ---------------------------------------------------------------- C24
\* The flag has the default that the constructor call d gave.
DefaultAsGiven(flag, d) ==
  /\ flag.name = d.name
  /\ flag.type = d.type
  /\ flag.hasDefaultValue = d.hasDefaultValue
  /\ flag.defaultValue = d.defaultValue

\* C24: hasDefaultValue() and defaultValue() of a flag are what its
\* constructor was given and no operation changes them, also when a
\* command-line value has replaced value().
C24_DefaultIsImmutable ==
  [][/\ \A id \in DOMAIN flagObj \cap DOMAIN flagObj' :
          /\ flagObj'[id].hasDefaultValue = flagObj[id].hasDefaultValue
          /\ flagObj'[id].defaultValue = flagObj[id].defaultValue
     /\ \A id \in DOMAIN flagObj' \ DOMAIN flagObj :
          \E d \in Declarations : DefaultAsGiven(flagObj'[id], d)]_vars

\* init has replaced the value of a flag that has a default, and a reset
\* has followed.
C24_Witness ==
  /\ op = "resetForTest"
  /\ ret = "true"
  /\ \E id \in DOMAIN flagObj :
       /\ flagObj[id].hasDefaultValue
       /\ flagObj[id].hasValue
       /\ flagObj[id].value # flagObj[id].defaultValue

\* ---------------------------------------------------------------- C25
\* C25: init returns true iff it has written nothing to the output stream;
\* a call that returns false has written at least one line.
C25_TrueIffSilent ==
  [][(op' = "init" /\ ~aborted')
       => /\ ret' \in {"true", "false"}
          /\ (ret' = "true") <=> (output' = output)
          /\ (ret' = "false") <=> (Len(output') > Len(output))
          /\ SubSeq(output', 1, Len(output)) = output]_vars

\* init has assigned a flag, kept a positional argument and returned true
\* with nothing written.
C25_Witness ==
  /\ op = "init"
  /\ ret = "true"
  /\ setLog # <<>>
  /\ argc > 1
  /\ output = <<>>

\* ---------------------------------------------------------------- C26
\* C26: a flag that has a value has one after every operation, for as long
\* as the flag is alive: nothing clears hasValue_.
C26_HasValueStays ==
  [][\A id \in DOMAIN flagObj \cap DOMAIN flagObj' :
       flagObj[id].hasValue => flagObj'[id].hasValue]_vars

\* A flag without a default got its value from an init call that then
\* failed, and resetForTest has run since.
C26_Witness ==
  /\ op = "resetForTest"
  /\ ret = "false"
  /\ \E id \in DOMAIN flagObj :
       flagObj[id].hasValue /\ ~flagObj[id].hasDefaultValue

\* ---------------------------------------------------------------- C27
\* The argument is a flag argument that init stops at: its name is not
\* registered, or its flag refuses the value text.
StopsInit(a, map, objs) ==
  /\ getFlagName(a) # <<>>
  /\ \/ getFlagName(a) \notin DOMAIN map
     \/ ~parseValidateAndSet(objs[map[getFlagName(a)]], a, <<>>).ok

\* The places in the argv array passed of the arguments that stop init.
StopPlaces(passed, map, objs) ==
  {i \in 2..(Len(passed) - 1) : StopsInit(passed[i], map, objs)}

Least(S) == CHOOSE x \in S : \A y \in S : x <= y

\* The positional arguments of passed before place stop, in order.
PositionalsBefore(passed, stop) ==
  SelectSeq(SubSeq(passed, 2, stop - 1), LAMBDA a : getFlagName(a) = <<>>)

\* init has stopped at place stop of the argv array passed and has left
\* argv1, argc1 and ret1.
AbortOutcome(passed, stop, argv1, argc1, ret1) ==
  /\ ret1 = "false"
  /\ argc1 = Len(passed) - 1
  /\ Len(argv1) = Len(passed)
  /\ \A k \in 1..(Len(passed) - 1) : argv1[k] # NULL
  /\ \A k \in stop..Len(passed) : argv1[k] = passed[k]
  /\ argv1[1] = passed[1]
  /\ \A k \in 2..(stop - 1) :
       argv1[k] = IF k - 1 <= Len(PositionalsBefore(passed, stop))
                  THEN PositionalsBefore(passed, stop)[k - 1]
                  ELSE passed[k]

\* C27: when init stops at an unrecognized flag or an invalid value,
\* *argcPtr is as passed, no terminator has been written, every argv entry
\* from the stopping argument on is as passed, and before it only the
\* positional arguments scanned so far have been copied toward the front.
C27_AbortLeavesArgcAndTail ==
  [][(op' = "init" /\ ~aborted' /\ StopPlaces(argvIn', flagMap, flagObj) # {})
       => AbortOutcome(argvIn', Least(StopPlaces(argvIn', flagMap, flagObj)),
                       argv', argc', ret')]_vars

\* init has stopped after it had copied a positional argument toward the
\* front: argv differs from what was passed, and argc does not.
C27_Witness ==
  /\ op = "init"
  /\ ret = "false"
  /\ argv # argvIn
  /\ argc = Len(argvIn) - 1
  /\ argv[Len(argv)] = NULL
  /\ \A k \in 1..(Len(argv) - 1) : argv[k] # NULL

\* ---------------------------------------------------------------- C28
\* The line reports a missing required flag.
IsMissingLine(line) == \E n \in DOMAIN flagMap : line = MissingLine(n)

\* C28: when init scans all arguments and returns false because required
\* flags are missing, argv and argc are compacted as on success: argc is
\* 1 + the number of positional arguments, and argv holds argv[0], the
\* positional arguments in order and the terminator.
C28_MissingRequiredStillCompacts ==
  (JustInit /\ ret = "false" /\ ScanCompletes)
  => /\ \E n \in RequiredNames : ~FlagNamed(n).hasValue
     /\ output # <<>>
     /\ \A i \in DOMAIN output : IsMissingLine(output[i])
     /\ argc = 1 + Len(Positionals)
     /\ SubSeq(argv, 1, argc + 1) = <<argvIn[1]>> \o Positionals \o <<NULL>>

\* init has removed a flag argument, kept a positional one and returned
\* false for a missing required flag.
C28_Witness ==
  /\ JustInit /\ ret = "false" /\ ScanCompletes
  /\ Len(Positionals) >= 1
  /\ Len(Args) > Len(Positionals)
  /\ argc = 1 + Len(Positionals)
  /\ argv[argc + 1] = NULL

\* ---------------------------------------------------------------- C29
\* map1 is map0 with one more key.
OneEntryAdded(map0, map1) ==
  /\ Cardinality(DOMAIN map1) = Cardinality(DOMAIN map0) + 1
  /\ DOMAIN map0 \subseteq DOMAIN map1
  /\ \A n \in DOMAIN map0 : map1[n] = map0[n]

\* C29: the registry changes only when a flag is constructed, which adds
\* one entry, and by resetForTest, which removes all; init, printUsage,
\* setOutputStream and the destruction of a flag leave it as it is, so a
\* destroyed flag stays registered until resetForTest.
C29_RegistryChangesOnlyByCtorAndReset ==
  [][/\ (op' = "declare" /\ ~aborted') => OneEntryAdded(flagMap, flagMap')
     /\ op' = "resetForTest" => flagMap' = EmptyMap
     /\ op' \notin {"declare", "resetForTest"} => flagMap' = flagMap
     /\ op' \in {"declare", "resetForTest", "init", "printUsage",
                 "setOutputStream", "destroy", "releaseArgs"}]_vars

\* A registered flag has been destroyed after an init call: its key is
\* still in the registry.
C29_Witness ==
  /\ op = "destroy"
  /\ hasBeenInitialized
  /\ \E n \in DOMAIN flagMap : flagMap[n] \notin DOMAIN flagObj

\* ---------------------------------------------------------------- C30
\* The parse error of a numeric flag type.
ParseErrorOf(type) ==
  CASE type = "int32"  -> <<"Must be an int32 number.">>
    [] type = "int64"  -> <<"Must be an int64 number.">>
    [] type = "float"  -> <<"Must be a finite float number.">>
    [] type = "double" -> <<"Must be a finite double number.">>

NumericTypes == {"int32", "int64", "float", "double"}

\* init was called with the one argument --n for the flag flag0 and has
\* left flag1, out1, ret1 and argc1.
BareOutcome(flag0, flag1, out1, ret1, argc1) ==
  /\ flag0.type = "string"
       => /\ ret1 = "true"
          /\ out1 = <<>>
          /\ flag1.hasValue
          /\ flag1.value = StringValue(<<>>)
          /\ argc1 = 1
  /\ flag0.type \in NumericTypes
       => /\ ret1 = "false"
          /\ out1 = <<InvalidLine(FlagN, <<>>, ParseErrorOf(flag0.type))>>
          /\ flag1 = flag0
          /\ argc1 = 2

====
